---- MODULE Spec2Model ----
(***************************************************************************)
(* Onboarding chatbot: the stage machine, the product sub-machine, the     *)
(* reconciliation of the stored stage with the stored data, and the turn   *)
(* processor of AIChatbotHandler (backend/ai_chatbot_handler.py), together *)
(* with the endpoints of backend/main_test.py that write to the same       *)
(* record outside a chat turn (file upload, new session with context).     *)
(* create_session is followed commit by commit, for requests of several    *)
(* users, on the rows of the onboarding table that have is_current set.    *)
(*                                                                         *)
(* One onboarding record is followed: the record of the session the        *)
(* handler is bound to.  Strings are sequences of characters, a character  *)
(* being a one-token TLA+ string ("a", ",", "U7121" for the code point     *)
(* U+7121).                                                                *)
(***************************************************************************)
EXTENDS Integers, Sequences, FiniteSets, TLC

VARIABLES onboarding_data, products, status, messages, turn, db_current, pc

vars == <<onboarding_data, products, status, messages, turn, db_current, pc>>

-----------------------------------------------------------------------------
(* Bounds of the model                                                     *)

\* tool calls in one response of the oracle or of the file extraction
MaxCalls == 2
\* tool calls in one response of an oracle that calls the offered tools only
MaxOffered == 1
\* distinct product ids the oracle and the user submit
MaxPid == 1
\* Product rows of the record
MaxProducts == 3
\* messages in the log of a session when a file is uploaded
MaxLog == 1
\* messages in the log of a session the message endpoint writes to
MaxHistory == 4

\* the entries of the message log of a session the oracle answers as expected
MaxSession == 26
\* users that create sessions
MaxUsers == 3
\* requests that may be inside create_session at the same time
MaxRequests == 2

-----------------------------------------------------------------------------
(* Python values: None, a key that is absent from a dict, int, str         *)

None == [t |-> "none", n |-> 0, s |-> <<>>]
Absent == [t |-> "absent", n |-> 0, s |-> <<>>]
PyInt(k) == [t |-> "int", n |-> k, s |-> <<>>]
PyStr(x) == [t |-> "str", n |-> 0, s |-> x]

\* bool(v): None, 0 and "" are falsy
Truthy(v) ==
    CASE v.t = "int" -> v.n # 0
      [] v.t = "str" -> v.s # <<>>
      [] OTHER -> FALSE

\* dict.get(key): None for a missing key
Get(d, k) == IF d[k].t = "absent" THEN None ELSE d[k]

\* key in dict
Has(d, k) == d[k].t # "absent"

DigitChars == << "0", "1", "2", "3", "4", "5", "6", "7", "8", "9" >>

Digits == { DigitChars[i] : i \in 1..10 }

DigitVal(c) == (CHOOSE i \in 1..10 : DigitChars[i] = c) - 1

RECURSIVE ParseDigits(_)
ParseDigits(s) ==
    IF s = <<>> THEN 0
    ELSE 10 * ParseDigits(SubSeq(s, 1, Len(s) - 1)) + DigitVal(s[Len(s)])

\* str.isdigit()
IsDigit(v) == v.t = "str" /\ v.s # <<>> /\ \A i \in 1..Len(v.s) : v.s[i] \in Digits

\* int(v) raises ValueError for a str that is not a number (and TypeError for None)
IntRaises(v) == ~(v.t = "int" \/ IsDigit(v))

\* int(v) when it does not raise
IntOf(v) == IF v.t = "int" THEN v.n ELSE ParseDigits(v.s)

-----------------------------------------------------------------------------
(* The enums and the class tables of AIChatbotHandler                      *)

STAGE_ORDER ==
    << "INDUSTRY", "CAPITAL_AMOUNT", "INVENTION_PATENT_COUNT",
       "UTILITY_PATENT_COUNT", "CERTIFICATION_COUNT", "ESG_CERTIFICATION",
       "PRODUCT", "COMPLETED" >>

PRODUCT_FIELD_ORDER ==
    << "product_id", "product_name", "price", "main_raw_materials",
       "product_standard", "technical_advantages" >>

\* current_product_field is a nullable column
NoField == "NULL"

STAGE_TO_FIELD ==
    [ INDUSTRY |-> "industry",
      CAPITAL_AMOUNT |-> "capital_amount",
      INVENTION_PATENT_COUNT |-> "invention_patent_count",
      UTILITY_PATENT_COUNT |-> "utility_patent_count",
      CERTIFICATION_COUNT |-> "certification_count",
      ESG_CERTIFICATION |-> "esg_certification" ]

\* list.index(x): position of x in a list that contains it
IndexOf(seq, x) == CHOOSE i \in 1..Len(seq) : seq[i] = x

Range(seq) == { seq[i] : i \in 1..Len(seq) }

-----------------------------------------------------------------------------
(* _count_esg_certifications                                               *)

Whitespace == {" ", "NL"}

\* str.lower() on the characters of the model
LowerChar(c) ==
    CASE c = "N" -> "n"
      [] c = "O" -> "o"
      [] c = "E" -> "e"
      [] c = "U0152" -> "U0153"
      [] OTHER -> c

lower(s) == [i \in 1..Len(s) |-> LowerChar(s[i])]

RECURSIVE lstrip(_)
lstrip(s) ==
    IF s # <<>> /\ s[1] \in Whitespace THEN lstrip(Tail(s)) ELSE s

RECURSIVE rstrip(_)
rstrip(s) ==
    IF s # <<>> /\ s[Len(s)] \in Whitespace
    THEN rstrip(SubSeq(s, 1, Len(s) - 1)) ELSE s

strip(s) == rstrip(lstrip(s))

\* re.split(r'[seps]+', s): the pieces between maximal runs of separators
RECURSIVE SplitFrom(_, _, _, _, _)
SplitFrom(s, seps, i, piece, inRun) ==
    IF i > Len(s) THEN << piece >>
    ELSE IF s[i] \in seps
         THEN IF inRun THEN SplitFrom(s, seps, i + 1, piece, TRUE)
              ELSE << piece >> \o SplitFrom(s, seps, i + 1, <<>>, TRUE)
         ELSE SplitFrom(s, seps, i + 1, Append(piece, s[i]), FALSE)

re_split(seps, s) == SplitFrom(s, seps, 1, <<>>, FALSE)

\* The literals of the list at line 1095 as the file stores them: the
\* characters U+00E7 U+201E U+00A1, U+00E6 U+00B2 U+00A1 U+00E6 U+0153 U+2030,
\* "none" and "-".
NoneWords ==
    { << "U00E7", "U201E", "U00A1" >>,
      << "U00E6", "U00B2", "U00A1", "U00E6", "U0153", "U2030" >>,
      << "n", "o", "n", "e" >>,
      << "-" >> }

\* The character class of the pattern at line 1100 as the file stores it
Separators == { ",", "U00EF", "U00BC", "U0152", ";", "U203A", "NL" }

CountWith(noneWords, seps, certification_str) ==
    IF certification_str = <<>> \/ lower(strip(certification_str)) \in noneWords
    THEN 0
    ELSE LET pieces == re_split(seps, certification_str)
         IN  Cardinality({ i \in 1..Len(pieces) : strip(pieces[i]) # <<>> })

count_esg_certifications(certification_str) ==
    CountWith(NoneWords, Separators, certification_str)

-----------------------------------------------------------------------------
(* Dicts of tool-call arguments and of the product draft                   *)

CompanyKeys ==
    { "industry", "capital_amount", "invention_patent_count",
      "utility_patent_count", "certification_count", "esg_certification" }

IntKeys ==
    { "capital_amount", "invention_patent_count", "utility_patent_count",
      "certification_count" }

ProductKeys == Range(PRODUCT_FIELD_ORDER)

\* every key a tool-call argument dict of the model can carry
ArgKeys ==
    CompanyKeys \cup ProductKeys
        \cup { "esg_certification_count", "field", "value", "completed", "data_type" }

\* the dict with the items of f
Dict(f) == [k \in ArgKeys |-> IF k \in DOMAIN f THEN f[k] ELSE Absent]

\* every key the draft dict of the model can carry: the six product field
\* names and one name that is not a product field
DraftKeys == ProductKeys \cup { "serial_no" }

EmptyDraft == [k \in DraftKeys |-> Absent]

\* the Text column current_product_draft: NULL or the JSON text of a dict
NullText == [isnull |-> TRUE, map |-> EmptyDraft]

json_dumps(d) == [isnull |-> FALSE, map |-> d]

json_loads(text) == text.map

\* a str that holds one name, as the name
NameOf(v) == IF v.t = "str" /\ Len(v.s) = 1 THEN v.s[1] ELSE "?"

RECURSIVE IntToStr(_)
IntToStr(n) ==
    IF n < 10 THEN << DigitChars[n + 1] >>
    ELSE IntToStr(n \div 10) \o << DigitChars[(n % 10) + 1] >>

\* str(v)
StrOf(v) == IF v.t = "str" THEN v.s ELSE IntToStr(v.n)

-----------------------------------------------------------------------------
(* The record after create_session, and the stage machine                  *)

NewOnboarding ==
    [ industry |-> None,
      capital_amount |-> None,
      invention_patent_count |-> None,
      utility_patent_count |-> None,
      certification_count |-> None,
      esg_certification_count |-> None,
      esg_certification |-> None,
      current_stage |-> "INDUSTRY",
      current_product_field |-> NoField,
      current_product_draft |-> NullText ]

get_current_stage(od) == od.current_stage

\* advance_stage starting over at the first stage after the last
advance_stage_wrapping(od) ==
    LET current_index == IndexOf(STAGE_ORDER, get_current_stage(od))
        next_stage == STAGE_ORDER[(current_index % Len(STAGE_ORDER)) + 1]
    IN  IF next_stage = "PRODUCT"
        THEN [od EXCEPT !.current_stage = next_stage,
                        !.current_product_field = "product_id",
                        !.current_product_draft = json_dumps(EmptyDraft)]
        ELSE [od EXCEPT !.current_stage = next_stage]

\* advance_stage without the product pointer and draft it sets on entering PRODUCT
advance_stage_plain(od) ==
    LET current_index == IndexOf(STAGE_ORDER, get_current_stage(od))
    IN  IF current_index < Len(STAGE_ORDER)
        THEN [od EXCEPT !.current_stage = STAGE_ORDER[current_index + 1]]
        ELSE od

advance_stage(od) ==
    LET current_index == IndexOf(STAGE_ORDER, get_current_stage(od))
        next_stage == STAGE_ORDER[current_index + 1]
    IN  IF current_index < Len(STAGE_ORDER)
        THEN IF next_stage = "PRODUCT"
             THEN [od EXCEPT !.current_stage = next_stage,
                             !.current_product_field = "product_id",
                             !.current_product_draft = json_dumps(EmptyDraft)]
             ELSE [od EXCEPT !.current_stage = next_stage]
        ELSE od

\* advance_product_field starting over at product_id after the last field
advance_product_field_wrapping(od) ==
    LET current_field == IF od.current_product_field = NoField
                         THEN "product_id" ELSE od.current_product_field
        current_index == IndexOf(PRODUCT_FIELD_ORDER, current_field)
    IN  [od EXCEPT !.current_product_field =
            PRODUCT_FIELD_ORDER[(current_index % Len(PRODUCT_FIELD_ORDER)) + 1]]

advance_product_field(od) ==
    LET current_field == IF od.current_product_field = NoField
                         THEN "product_id" ELSE od.current_product_field
        current_index == IndexOf(PRODUCT_FIELD_ORDER, current_field)
    IN  IF current_index < Len(PRODUCT_FIELD_ORDER)
        THEN [od EXCEPT !.current_product_field = PRODUCT_FIELD_ORDER[current_index + 1]]
        ELSE od

reset_product_draft(od) ==
    [od EXCEPT !.current_product_field = "product_id",
               !.current_product_draft = json_dumps(EmptyDraft)]

get_product_draft(od) ==
    IF od.current_product_draft.isnull THEN EmptyDraft
    ELSE json_loads(od.current_product_draft)

update_product_draft(od, field, value) ==
    [od EXCEPT !.current_product_draft =
        json_dumps([get_product_draft(od) EXCEPT ![field] = value])]

\* is_product_draft_complete with any() in the place of all()
is_product_draft_complete_any(od) ==
    \E f \in Range(PRODUCT_FIELD_ORDER) : Truthy(Get(get_product_draft(od), f))

is_product_draft_complete(od) ==
    \A f \in Range(PRODUCT_FIELD_ORDER) : Truthy(Get(get_product_draft(od), f))

\* sync_stage_with_data testing capital_amount with "not" instead of "is None"
sync_stage_with_data_truthy(od) ==
    IF ~Truthy(od.industry) THEN [od EXCEPT !.current_stage = "INDUSTRY"]
    ELSE IF ~Truthy(od.capital_amount) THEN [od EXCEPT !.current_stage = "CAPITAL_AMOUNT"]
    ELSE IF od.invention_patent_count = None
         THEN [od EXCEPT !.current_stage = "INVENTION_PATENT_COUNT"]
    ELSE IF od.utility_patent_count = None
         THEN [od EXCEPT !.current_stage = "UTILITY_PATENT_COUNT"]
    ELSE IF od.certification_count = None
         THEN [od EXCEPT !.current_stage = "CERTIFICATION_COUNT"]
    ELSE IF ~Truthy(od.esg_certification)
         THEN [od EXCEPT !.current_stage = "ESG_CERTIFICATION"]
    ELSE IF od.current_product_field = NoField
         THEN [od EXCEPT !.current_stage = "PRODUCT",
                         !.current_product_field = "product_id",
                         !.current_product_draft = json_dumps(EmptyDraft)]
         ELSE [od EXCEPT !.current_stage = "PRODUCT"]

\* sync_stage_with_data leaving the last branch through advance_stage()
sync_stage_with_data_advancing(od) ==
    IF ~Truthy(od.industry) THEN [od EXCEPT !.current_stage = "INDUSTRY"]
    ELSE IF od.capital_amount = None THEN [od EXCEPT !.current_stage = "CAPITAL_AMOUNT"]
    ELSE IF od.invention_patent_count = None
         THEN [od EXCEPT !.current_stage = "INVENTION_PATENT_COUNT"]
    ELSE IF od.utility_patent_count = None
         THEN [od EXCEPT !.current_stage = "UTILITY_PATENT_COUNT"]
    ELSE IF od.certification_count = None
         THEN [od EXCEPT !.current_stage = "CERTIFICATION_COUNT"]
    ELSE IF ~Truthy(od.esg_certification)
         THEN [od EXCEPT !.current_stage = "ESG_CERTIFICATION"]
    ELSE advance_stage(od)

sync_stage_with_data(od) ==
    IF ~Truthy(od.industry) THEN [od EXCEPT !.current_stage = "INDUSTRY"]
    ELSE IF od.capital_amount = None THEN [od EXCEPT !.current_stage = "CAPITAL_AMOUNT"]
    ELSE IF od.invention_patent_count = None
         THEN [od EXCEPT !.current_stage = "INVENTION_PATENT_COUNT"]
    ELSE IF od.utility_patent_count = None
         THEN [od EXCEPT !.current_stage = "UTILITY_PATENT_COUNT"]
    ELSE IF od.certification_count = None
         THEN [od EXCEPT !.current_stage = "CERTIFICATION_COUNT"]
    ELSE IF ~Truthy(od.esg_certification)
         THEN [od EXCEPT !.current_stage = "ESG_CERTIFICATION"]
    ELSE IF od.current_product_field = NoField
         THEN [od EXCEPT !.current_stage = "PRODUCT",
                         !.current_product_field = "product_id",
                         !.current_product_draft = json_dumps(EmptyDraft)]
         ELSE [od EXCEPT !.current_stage = "PRODUCT"]

get_progress(od) ==
    Cardinality({ k \in CompanyKeys :
                    IF k \in IntKeys THEN od[k] # None ELSE Truthy(od[k]) })

-----------------------------------------------------------------------------
(* update_onboarding_data and add_product                                  *)

\* an int() of the body raises: the except branch rolls the pending writes back
update_raises(data) ==
    \E k \in IntKeys : Has(data, k) /\ data[k] # None /\ IntRaises(data[k])

\* update_onboarding_data storing whatever value a named attribute arrives with
update_onboarding_data_storing_empty(od, data) ==
    LET given(k) == IF Has(data, k) THEN data[k] ELSE od[k]
    IN  IF update_raises(data)
        THEN [od |-> od, ret |-> FALSE]
        ELSE [od |-> [od EXCEPT !.industry = given("industry"),
                                !.capital_amount = given("capital_amount"),
                                !.invention_patent_count = given("invention_patent_count"),
                                !.utility_patent_count = given("utility_patent_count"),
                                !.certification_count = given("certification_count"),
                                !.esg_certification = given("esg_certification")],
              ret |-> \E k \in CompanyKeys : Has(data, k)]

\* returns the record and the bool the method returns
update_onboarding_data(od, data) ==
    LET w_industry == Has(data, "industry") /\ Truthy(data["industry"])
        w_int(k) == Has(data, k) /\ data[k] # None
        w_esg == Has(data, "esg_certification") /\ Truthy(data["esg_certification"])
        esg_str == StrOf(data["esg_certification"])
        updated == w_industry \/ w_esg \/ \E k \in IntKeys : w_int(k)
        written ==
            [ od EXCEPT
                !.industry = IF w_industry THEN data["industry"] ELSE @,
                !.capital_amount =
                    IF w_int("capital_amount")
                    THEN PyInt(IntOf(data["capital_amount"])) ELSE @,
                !.invention_patent_count =
                    IF w_int("invention_patent_count")
                    THEN PyInt(IntOf(data["invention_patent_count"])) ELSE @,
                !.utility_patent_count =
                    IF w_int("utility_patent_count")
                    THEN PyInt(IntOf(data["utility_patent_count"])) ELSE @,
                !.certification_count =
                    IF w_int("certification_count")
                    THEN PyInt(IntOf(data["certification_count"])) ELSE @,
                !.esg_certification = IF w_esg THEN PyStr(esg_str) ELSE @,
                !.esg_certification_count =
                    IF w_esg THEN PyInt(count_esg_certifications(esg_str)) ELSE @ ]
    IN  IF update_raises(data)
        THEN [od |-> od, ret |-> FALSE]
        ELSE [od |-> written, ret |-> updated]

\* update_onboarding_data leaving the pending writes in place when the commit fails
update_onboarding_data_commit_failing_dirty(od, data) ==
    [od |-> update_onboarding_data(od, data).od, ret |-> FALSE]

\* update_onboarding_data when self.db.commit() raises: the commit is reached
\* only if updated is set, and the except branch rolls the writes back
update_onboarding_data_commit_failing(od, data) ==
    LET r == update_onboarding_data(od, data)
    IN  IF r.ret THEN [od |-> od, ret |-> FALSE] ELSE r

\* the display names of required_fields, as tokens
REQUIRED_DISPLAY ==
    [ product_id |-> "name(product_id)",
      product_name |-> "name(product_name)",
      price |-> "name(price)",
      main_raw_materials |-> "name(main_raw_materials)",
      product_standard |-> "name(product_standard)",
      technical_advantages |-> "name(technical_advantages)" ]

\* the display names of the fields of PRODUCT_FIELD_ORDER[i..] that the data lacks
RECURSIVE MissingFrom(_, _)
MissingFrom(product_data, i) ==
    IF i > Len(PRODUCT_FIELD_ORDER) THEN <<>>
    ELSE LET field == PRODUCT_FIELD_ORDER[i]
         IN  IF ~Truthy(Get(product_data, field))
             THEN << REQUIRED_DISPLAY[field] >> \o MissingFrom(product_data, i + 1)
             ELSE MissingFrom(product_data, i + 1)

\* Query(Product).filter(product_id == pid).first(): the row's position, 0 for None
first_product(rows, pid) ==
    IF \E i \in 1..Len(rows) : rows[i].product_id = pid
    THEN CHOOSE i \in 1..Len(rows) :
            /\ rows[i].product_id = pid
            /\ \A j \in 1..(i - 1) : rows[j].product_id # pid
    ELSE 0

\* the Product row built from a dict
ProductRow(d) == [f \in ProductKeys |-> Get(d, f)]

\* x or y
Or(x, y) == IF Truthy(x) THEN x ELSE y

\* add_product without the return on missing_fields
add_product_unvalidated(rows, product_data) ==
    LET product_id == Get(product_data, "product_id")
        existing == IF Truthy(product_id) THEN first_product(rows, product_id) ELSE 0
        merged ==
            [ f \in ProductKeys |->
                IF f = "product_id" THEN rows[existing][f]
                ELSE Or(Get(product_data, f), rows[existing][f]) ]
    IN  IF existing # 0
        THEN [rows |-> [rows EXCEPT ![existing] = merged], product |-> existing,
              was_updated |-> TRUE, missing |-> <<>>]
        ELSE [rows |-> Append(rows, ProductRow(product_data)),
              product |-> Len(rows) + 1, was_updated |-> FALSE, missing |-> <<>>]

\* add_product without the query for an existing product_id
add_product_always_creates(rows, product_data) ==
    LET missing_fields == MissingFrom(product_data, 1)
    IN  IF missing_fields # <<>>
        THEN [rows |-> rows, product |-> 0, was_updated |-> FALSE,
              missing |-> missing_fields]
        ELSE [rows |-> Append(rows, ProductRow(product_data)),
              product |-> Len(rows) + 1, was_updated |-> FALSE, missing |-> <<>>]

\* add_product with the operands of each "or" of the update exchanged
add_product_keeps_existing(rows, product_data) ==
    LET missing_fields == MissingFrom(product_data, 1)
        product_id == Get(product_data, "product_id")
        existing == IF Truthy(product_id) THEN first_product(rows, product_id) ELSE 0
        merged ==
            [ f \in ProductKeys |->
                IF f = "product_id" THEN rows[existing][f]
                ELSE Or(rows[existing][f], Get(product_data, f)) ]
    IN  IF missing_fields # <<>>
        THEN [rows |-> rows, product |-> 0, was_updated |-> FALSE,
              missing |-> missing_fields]
        ELSE IF existing # 0
        THEN [rows |-> [rows EXCEPT ![existing] = merged], product |-> existing,
              was_updated |-> TRUE, missing |-> <<>>]
        ELSE [rows |-> Append(rows, ProductRow(product_data)),
              product |-> Len(rows) + 1, was_updated |-> FALSE, missing |-> <<>>]

\* returns the rows and (product, was_updated, missing_fields); product is the
\* position of the returned row, 0 for None
add_product(rows, product_data) ==
    LET missing_fields == MissingFrom(product_data, 1)
        product_id == Get(product_data, "product_id")
        existing == IF Truthy(product_id) THEN first_product(rows, product_id) ELSE 0
        merged ==
            [ f \in ProductKeys |->
                IF f = "product_id" THEN rows[existing][f]
                ELSE Or(Get(product_data, f), rows[existing][f]) ]
    IN  IF missing_fields # <<>>
        THEN [rows |-> rows, product |-> 0, was_updated |-> FALSE,
              missing |-> missing_fields]
        ELSE IF existing # 0
        THEN [rows |-> [rows EXCEPT ![existing] = merged], product |-> existing,
              was_updated |-> TRUE, missing |-> <<>>]
        ELSE [rows |-> Append(rows, ProductRow(product_data)),
              product |-> Len(rows) + 1, was_updated |-> FALSE, missing |-> <<>>]

\* save_product_from_draft resetting the draft only when it adds a row
save_product_from_draft_keeps_draft(od, rows) ==
    LET draft == get_product_draft(od)
        product_id == Get(draft, "product_id")
        existing == IF Truthy(product_id) THEN first_product(rows, product_id) ELSE 0
    IN  IF ~is_product_draft_complete(od)
        THEN [od |-> od, rows |-> rows, product |-> 0]
        ELSE IF existing # 0
        THEN [od |-> od,
              rows |-> [rows EXCEPT ![existing] =
                            [ProductRow(draft) EXCEPT !["product_id"] = rows[existing]["product_id"]]],
              product |-> existing]
        ELSE [od |-> reset_product_draft(od),
              rows |-> Append(rows, ProductRow(draft)),
              product |-> Len(rows) + 1]

\* returns the record, the rows and the position of the returned row (0 for None)
save_product_from_draft(od, rows) ==
    LET draft == get_product_draft(od)
        product_id == Get(draft, "product_id")
        existing == IF Truthy(product_id) THEN first_product(rows, product_id) ELSE 0
        overwritten ==
            [ f \in ProductKeys |->
                IF f = "product_id" THEN rows[existing][f] ELSE Get(draft, f) ]
    IN  IF ~is_product_draft_complete(od)
        THEN [od |-> od, rows |-> rows, product |-> 0]
        ELSE IF existing # 0
        THEN [od |-> reset_product_draft(od),
              rows |-> [rows EXCEPT ![existing] = overwritten],
              product |-> existing]
        ELSE [od |-> reset_product_draft(od),
              rows |-> Append(rows, ProductRow(draft)),
              product |-> Len(rows) + 1]

-----------------------------------------------------------------------------
(* process_message                                                         *)

Reply(kind, name, n) == [kind |-> kind, name |-> name, n |-> n]

\* STAGE_TO_DISPLAY_NAME.get(stage, default): COMPLETED has no entry
StageDisplay(stage) == IF stage = "COMPLETED" THEN "default" ELSE stage

get_next_field_question(od, rows) ==
    IF ~Truthy(od.industry) THEN Reply("question", "industry", get_progress(od))
    ELSE IF od.capital_amount = None
         THEN Reply("question", "capital_amount", get_progress(od))
    ELSE IF od.invention_patent_count = None
         THEN Reply("question", "invention_patent_count", get_progress(od))
    ELSE IF od.utility_patent_count = None
         THEN Reply("question", "utility_patent_count", get_progress(od))
    ELSE IF od.certification_count = None
         THEN Reply("question", "certification_count", get_progress(od))
    ELSE IF ~Truthy(od.esg_certification)
         THEN Reply("question", "esg_certification", get_progress(od))
    ELSE IF Len(rows) = 0 THEN Reply("summary_then_first_product", "product_id", 0)
    ELSE Reply("more_products", "product_id", Len(rows))

\* the state a turn carries from one tool call to the next
TurnState(od, rows, st) ==
    [ od |-> od, rows |-> rows, status |-> st,
      completed |-> FALSE, data_updated |-> FALSE,
      product_field_collected |-> FALSE, product_just_saved |-> FALSE,
      view_data_requested |-> FALSE, view_data_response |-> "",
      raised |-> FALSE, flushes |-> <<>>, commit_ok |-> TRUE ]

call_update_company_data(st, args) ==
    LET r == IF st.commit_ok THEN update_onboarding_data(st.od, args)
             ELSE update_onboarding_data_commit_failing(st.od, args)
    IN  IF r.ret
        THEN [st EXCEPT !.od = advance_stage(r.od), !.data_updated = TRUE]
        ELSE [st EXCEPT !.od = r.od]

call_collect_product_field(st, args) ==
    LET field == Get(args, "field")
        value == Get(args, "value")
        drafted == update_product_draft(st.od, NameOf(field), value)
        saved == save_product_from_draft(drafted, st.rows)
    IN  IF Truthy(field) /\ Truthy(value)
        THEN IF is_product_draft_complete(drafted)
             THEN [st EXCEPT !.od = saved.od, !.rows = saved.rows,
                             !.product_field_collected = TRUE,
                             !.product_just_saved = (saved.product # 0) \/ @,
                             !.flushes = IF saved.product # 0
                                         THEN Append(@, get_product_draft(drafted))
                                         ELSE @]
             ELSE [st EXCEPT !.od = advance_product_field(drafted),
                             !.product_field_collected = TRUE]
        ELSE st

\* mark_completed sending the record back to the first stage
call_mark_completed_restarting(st, args) ==
    IF Truthy(Get(args, "completed"))
    THEN [st EXCEPT !.status = "COMPLETED",
                    !.od = [st.od EXCEPT !.current_stage = "INDUSTRY"],
                    !.completed = TRUE]
    ELSE st

call_mark_completed(st, args) ==
    IF Truthy(Get(args, "completed"))
    THEN [st EXCEPT !.status = "COMPLETED",
                    !.od = [st.od EXCEPT !.current_stage = "COMPLETED"],
                    !.completed = TRUE]
    ELSE st

\* add_complete_product without the reset_product_draft() that follows a save
call_add_complete_product_keeping_draft(st, args) ==
    LET r == add_product(st.rows, [f \in ProductKeys |-> Get(args, f)])
    IN  IF r.product # 0
        THEN [st EXCEPT !.rows = r.rows, !.product_just_saved = TRUE]
        ELSE [st EXCEPT !.rows = r.rows]

call_add_complete_product(st, args) ==
    LET r == add_product(st.rows, [f \in ProductKeys |-> Get(args, f)])
    IN  IF r.product # 0
        THEN [st EXCEPT !.rows = r.rows, !.od = reset_product_draft(st.od),
                        !.product_just_saved = TRUE]
        ELSE [st EXCEPT !.rows = r.rows]

\* update_product writing the value to the named field of every product
call_update_product_all_rows(st, args) ==
    LET product_id == Get(args, "product_id")
        field == Get(args, "field")
        value == Get(args, "value")
    IN  IF Truthy(product_id) /\ Truthy(field) /\ Truthy(value)
            /\ first_product(st.rows, product_id) # 0
        THEN [st EXCEPT
                !.rows = IF NameOf(field) \in ProductKeys \ {"product_id"}
                         THEN [i \in 1..Len(st.rows) |->
                                    [st.rows[i] EXCEPT ![NameOf(field)] = value]]
                         ELSE @,
                !.data_updated = TRUE]
        ELSE st

\* update_product without the test of the value
call_update_product_any_value(st, args) ==
    LET product_id == Get(args, "product_id")
        field == Get(args, "field")
        value == Get(args, "value")
        product == first_product(st.rows, product_id)
    IN  IF Truthy(product_id) /\ Truthy(field) /\ product # 0
        THEN [st EXCEPT
                !.rows = IF NameOf(field) \in ProductKeys \ {"product_id"}
                         THEN [@ EXCEPT ![product][NameOf(field)] = value]
                         ELSE @,
                !.data_updated = TRUE]
        ELSE st

call_update_product(st, args) ==
    LET product_id == Get(args, "product_id")
        field == Get(args, "field")
        value == Get(args, "value")
        product == first_product(st.rows, product_id)
    IN  IF Truthy(product_id) /\ Truthy(field) /\ Truthy(value) /\ product # 0
        THEN [st EXCEPT
                !.rows = IF NameOf(field) \in ProductKeys \ {"product_id"}
                         THEN [@ EXCEPT ![product][NameOf(field)] = value]
                         ELSE @,
                !.data_updated = TRUE]
        ELSE st

\* value.isdigit() of a non-str, int() and float() of a non-number raise; the
\* characters of the model hold no "." and no sign
company_field_raises(field, value) ==
    IF NameOf(field) = "capital_amount" THEN ~IsDigit(value)
    ELSE NameOf(field) \in IntKeys /\ IntRaises(value)

call_update_company_field(st, args) ==
    LET field == Get(args, "field")
        value == Get(args, "value")
        update_data ==
            IF NameOf(field) \in IntKeys
            THEN [k \in ArgKeys |-> IF k = NameOf(field) THEN PyInt(IntOf(value)) ELSE Absent]
            ELSE [k \in ArgKeys |-> IF k = NameOf(field) THEN value ELSE Absent]
    IN  IF Truthy(field) /\ Truthy(value)
        THEN IF company_field_raises(field, value)
             THEN [st EXCEPT !.raised = TRUE]
             ELSE IF NameOf(field) \in CompanyKeys
             THEN [st EXCEPT !.od = IF st.commit_ok
                                    THEN update_onboarding_data(st.od, update_data).od
                                    ELSE update_onboarding_data_commit_failing(
                                            st.od, update_data).od,
                             !.data_updated = TRUE]
             ELSE st
        ELSE st

call_view_data(st, args) ==
    [st EXCEPT !.view_data_requested = TRUE,
               !.view_data_response =
                    IF Get(args, "data_type") = PyStr(<<"company">>) THEN "company"
                    ELSE IF Get(args, "data_type") = PyStr(<<"products">>) THEN "products"
                    ELSE "all"]

dispatch(st, call) ==
    CASE call.name = "update_company_data" -> call_update_company_data(st, call.arguments)
      [] call.name = "collect_product_field" -> call_collect_product_field(st, call.arguments)
      [] call.name = "mark_completed" -> call_mark_completed(st, call.arguments)
      [] call.name = "add_complete_product" -> call_add_complete_product(st, call.arguments)
      [] call.name = "update_product" -> call_update_product(st, call.arguments)
      [] call.name = "update_company_field" -> call_update_company_field(st, call.arguments)
      [] call.name = "view_data" -> call_view_data(st, call.arguments)
      [] OTHER -> st

\* the for loop over function_calls; an exception leaves the loop
RECURSIVE dispatch_all(_, _, _)
dispatch_all(st, function_calls, i) ==
    IF i > Len(function_calls) \/ st.raised THEN st
    ELSE dispatch_all(dispatch(st, function_calls[i]), function_calls, i + 1)

\* the reply of the first turn, by the menu choice the message holds
menu_reply(user_message) ==
    CASE user_message = "1" -> Reply("start_filling", "industry", 0)
      [] user_message = "2" -> Reply("progress", "", 0)
      [] user_message = "3" -> Reply("filled_data", "", 0)
      [] OTHER -> Reply("greeting", "", 0)

\* the reply synthesized after the loop
synthesized_reply(st, current_stage, ai_message) ==
    LET product_field == IF st.od.current_product_field = NoField
                         THEN "product_id" ELSE st.od.current_product_field
        draft == get_product_draft(st.od)
        filled_count == Cardinality({ k \in DraftKeys : Truthy(Get(draft, k)) })
    IN  IF st.view_data_requested THEN Reply("view_data", st.view_data_response, 0)
        ELSE IF st.completed
             THEN IF ai_message # "" THEN Reply("oracle_text", ai_message, 0)
                  ELSE Reply("thanks", "", 0)
        ELSE IF ai_message # "" THEN Reply("oracle_text", ai_message, 0)
        ELSE IF st.product_just_saved THEN Reply("product_added", "product_id", 0)
        ELSE IF st.data_updated
             THEN IF current_stage = "COMPLETED" THEN Reply("updated", "", 0)
                  ELSE [ get_next_field_question(st.od, st.rows) EXCEPT
                            !.kind = "recorded_then_" \o @ ]
        ELSE IF st.product_field_collected
             THEN Reply("product_progress", product_field, filled_count)
        ELSE get_next_field_question(st.od, st.rows)

\* the names of the tools offered to the oracle, in the order of the list
get_state_aware_tools(od) ==
    LET stage == get_current_stage(od)
    IN  IF stage = "PRODUCT"
        THEN << "collect_product_field", "add_complete_product", "update_product",
                "update_company_field", "view_data", "mark_completed" >>
        ELSE IF stage = "COMPLETED"
        THEN << "update_company_field", "update_product", "add_complete_product",
                "view_data", "mark_completed" >>
        ELSE << "update_company_data" >>

\* what a call of process_message leaves and returns; menu is the tool list
\* extract_data_with_ai offered, empty if the oracle was not asked
Outcome(st, stage0, invoked, reply) ==
    [ od |-> st.od, rows |-> st.rows, status |-> st.status,
      stage0 |-> stage0, invoked |-> invoked, menu |-> <<>>,
      reply |-> reply, completed |-> st.completed /\ ~st.view_data_requested,
      raised |-> st.raised, flushes |-> st.flushes ]

\* the body of process_message after its first statement, from the turn state st0
process_from(st0, history, user_message, ai_result) ==
    LET synced == st0.od
        current_stage == get_current_stage(synced)
        product_field == IF synced.current_product_field = NoField
                         THEN "product_id" ELSE synced.current_product_field
        st == dispatch_all(st0, ai_result.function_calls, 1)
        out ==
            IF Len(history) = 0
                THEN Outcome(st0, current_stage, FALSE, menu_reply(user_message))
                ELSE IF ai_result.error
                THEN Outcome(st0, current_stage, TRUE,
                             Reply("retry_after_error", StageDisplay(current_stage), 0))
                ELSE IF ai_result.function_calls = <<>>
                THEN Outcome(st0, current_stage, TRUE,
                             IF current_stage = "PRODUCT"
                             THEN Reply("please_provide", product_field, 0)
                             ELSE Reply("please_provide", StageDisplay(current_stage), 0))
                ELSE IF st.raised
                THEN Outcome(st, current_stage, TRUE, Reply("exception", "", 0))
                ELSE Outcome(st, current_stage, TRUE,
                             synthesized_reply(st, current_stage, ai_result.message))
    IN  [out EXCEPT !.menu = IF out.invoked THEN get_state_aware_tools(synced) ELSE <<>>]

process_synced(synced, rows, session_status, history, user_message, ai_result) ==
    process_from(TurnState(synced, rows, session_status), history, user_message, ai_result)

\* process_message in a turn in which the commit of update_onboarding_data fails
process_message_commit_failing(od, rows, session_status, history, user_message, ai_result) ==
    process_from([TurnState(sync_stage_with_data(od), rows, session_status)
                    EXCEPT !.commit_ok = FALSE],
                 history, user_message, ai_result)

\* process_message without the sync_stage_with_data() of its first statement
process_message_unsynced(od, rows, session_status, history, user_message, ai_result) ==
    process_synced(od, rows, session_status, history, user_message, ai_result)

\* process_message starting every turn from a fresh product draft
process_message_clearing_draft(od, rows, session_status, history, user_message, ai_result) ==
    process_synced(sync_stage_with_data(reset_product_draft(od)), rows, session_status,
                   history, user_message, ai_result)

\* process_message without the test for the first message of a session
process_message_always_invokes(od, rows, session_status, history, user_message, ai_result) ==
    process_synced(sync_stage_with_data(od), rows, session_status,
                   Append(history, "user"), user_message, ai_result)

\* process_message closing the session when the oracle fails
process_message_error_closes(od, rows, session_status, history, user_message, ai_result) ==
    LET r == process_synced(sync_stage_with_data(od), rows, session_status, history,
                            user_message, ai_result)
    IN  IF r.invoked /\ ai_result.error THEN [r EXCEPT !.status = "COMPLETED"] ELSE r

process_message(od, rows, session_status, history, user_message, ai_result) ==
    process_synced(sync_stage_with_data(od), rows, session_status, history,
                   user_message, ai_result)

-----------------------------------------------------------------------------
(* AIChatbotHandlerTest.process_message: the handler main_test.py imports. *)
(* Its state-machine methods are those of AIChatbotHandler; its tool list, *)
(* its dispatch loop and its reply synthesis differ                        *)

Test_get_state_aware_tools(od) ==
    LET stage == get_current_stage(od)
    IN  IF stage = "PRODUCT" THEN << "collect_product_field", "mark_completed" >>
        ELSE IF stage = "COMPLETED" THEN << "mark_completed" >>
        ELSE << "update_company_data" >>

\* the collect_product_field branch: no flag records that a product was saved
Test_call_collect_product_field(st, args) ==
    [call_collect_product_field(st, args) EXCEPT !.product_just_saved = FALSE]

Test_dispatch(st, call) ==
    CASE call.name = "update_company_data" -> call_update_company_data(st, call.arguments)
      [] call.name = "collect_product_field" ->
            Test_call_collect_product_field(st, call.arguments)
      [] call.name = "mark_completed" -> call_mark_completed(st, call.arguments)
      [] OTHER -> st

RECURSIVE Test_dispatch_all(_, _, _)
Test_dispatch_all(st, function_calls, i) ==
    IF i > Len(function_calls) THEN st
    ELSE Test_dispatch_all(Test_dispatch(st, function_calls[i]), function_calls, i + 1)

\* the reply synthesized after the loop: the product-added confirmation is
\* chosen by is_product_draft_complete() of the draft as the loop left it
Test_synthesized_reply(st, current_stage, ai_message) ==
    LET product_field == IF st.od.current_product_field = NoField
                         THEN "product_id" ELSE st.od.current_product_field
        draft == get_product_draft(st.od)
        filled_count == Cardinality({ k \in DraftKeys : Truthy(Get(draft, k)) })
    IN  IF st.completed
        THEN IF ai_message # "" THEN Reply("oracle_text", ai_message, 0)
             ELSE Reply("thanks", "", 0)
        ELSE IF ai_message # "" THEN Reply("oracle_text", ai_message, 0)
        ELSE IF st.data_updated
             THEN [ get_next_field_question(st.od, st.rows) EXCEPT
                        !.kind = "recorded_then_" \o @ ]
        ELSE IF st.product_field_collected
             THEN IF is_product_draft_complete(st.od)
                  THEN Reply("product_added", "product_id", 0)
                  ELSE Reply("product_progress", product_field, filled_count)
        ELSE get_next_field_question(st.od, st.rows)

Test_process_message(od, rows, session_status, history, user_message, ai_result) ==
    LET synced == sync_stage_with_data(od)
        current_stage == get_current_stage(synced)
        st0 == TurnState(synced, rows, session_status)
        product_field == IF synced.current_product_field = NoField
                         THEN "product_id" ELSE synced.current_product_field
        st == Test_dispatch_all(st0, ai_result.function_calls, 1)
        out ==
            IF Len(history) = 0
            THEN Outcome(st0, current_stage, FALSE, menu_reply(user_message))
            ELSE IF ai_result.error
            THEN Outcome(st0, current_stage, TRUE,
                         Reply("retry_after_error", StageDisplay(current_stage), 0))
            ELSE IF ai_result.function_calls = <<>>
            THEN Outcome(st0, current_stage, TRUE,
                         IF current_stage = "PRODUCT"
                         THEN Reply("please_provide", product_field, 0)
                         ELSE Reply("please_provide", StageDisplay(current_stage), 0))
            ELSE Outcome(st, current_stage, TRUE,
                         Test_synthesized_reply(st, current_stage, ai_result.message))
    IN  [out EXCEPT !.menu = IF out.invoked THEN Test_get_state_aware_tools(synced)
                             ELSE <<>>]

-----------------------------------------------------------------------------
(* The endpoints of main_test.py that write to the record                  *)

\* the tool-call loop of upload_file_for_extraction; returns the record, the
\* rows, data_updated and products_added
RECURSIVE upload_all(_, _)
upload_all(acc, function_calls) ==
    IF function_calls = <<>> THEN acc
    ELSE LET call == Head(function_calls)
             u == update_onboarding_data(acc.od, call.arguments)
             a == add_product(acc.rows, call.arguments)
         IN  upload_all(
                CASE call.name = "update_company_data" ->
                        [acc EXCEPT !.od = u.od, !.data_updated = u.ret \/ @]
                  [] call.name = "add_product" ->
                        [acc EXCEPT !.rows = a.rows,
                                    !.products_added = IF a.product # 0 THEN @ + 1 ELSE @]
                  [] OTHER -> acc,
                Tail(function_calls))

\* the record create_new_session_with_context leaves for the new session
copy_company_data(latest) ==
    [ NewOnboarding EXCEPT
        !.industry = latest.industry,
        !.capital_amount = latest.capital_amount,
        !.invention_patent_count = latest.invention_patent_count,
        !.utility_patent_count = latest.utility_patent_count,
        !.certification_count = latest.certification_count,
        !.esg_certification_count = latest.esg_certification_count,
        !.esg_certification = latest.esg_certification ]

\* the rows create_new_session_with_context adds for the new record
RECURSIVE copy_products(_)
copy_products(old_products) ==
    IF old_products = <<>> THEN <<>>
    ELSE << [f \in ProductKeys |-> Head(old_products)[f]] >>
            \o copy_products(Tail(old_products))

-----------------------------------------------------------------------------
(* create_session on the onboarding table                                  *)

\* The table is kept as the sequence of its rows that have is_current set, in
\* the order they were added: every query on the column selects
\* is_current == True, and a row that lost the flag never gets it back.  A row
\* holds its user_id and, for its chat_session_id, whether that session is the
\* most recently created session of the user.

Users == 1..MaxUsers

Requests == 1..MaxRequests

\* the user of the record the handler-level variables follow
FollowedUser == 1

CountOf(rows, user_id) ==
    Cardinality({ i \in 1..Len(rows) : rows[i].user_id = user_id })

\* db.add(ChatSession(user_id=...)); commit: the sessions the user had are no
\* longer the most recent
add_session(rows, user_id) ==
    [i \in 1..Len(rows) |->
        IF rows[i].user_id = user_id THEN [rows[i] EXCEPT !.latest = FALSE] ELSE rows[i]]

\* the update clearing is_current on the rows of every user
demote_current_any_user(rows, user_id) == <<>>

\* query(CompanyOnboarding).filter(user_id == ..., is_current == True)
\*     .update({"is_current": False}); commit
demote_current(rows, user_id) ==
    SelectSeq(rows, LAMBDA row : row.user_id # user_id)

\* db.add(CompanyOnboarding(chat_session_id=..., user_id=..., is_current=True));
\* commit
add_current_record(rows, user_id, latest) ==
    Append(rows, [user_id |-> user_id, latest |-> latest])

\* create_session running alone
create_session(rows, user_id) ==
    add_current_record(demote_current(add_session(rows, user_id), user_id),
                       user_id, TRUE)

\* the id of the session the handler-level variables follow; it belongs to
\* FollowedUser
FollowedSession == 1

\* session_id of a request that names no session
NoSession == 0

\* the session ids a request carries
SessionIds == { NoSession, FollowedSession }

\* __init__ looking the session up by its id alone
load_session_any_user(user_id, session_id) == session_id = FollowedSession

\* __init__: query(ChatSession).filter(id == session_id, user_id == user_id)
\*     .first(), for the followed session: TRUE if the handler is bound to it
load_session(user_id, session_id) ==
    session_id = FollowedSession /\ user_id = FollowedUser

\* a request that is not inside create_session
Idle == [at |-> "idle", user_id |-> 0, latest |-> FALSE, endpoint |-> ""]

\* the endpoints whose handler calls create_session
SessionEndpoints ==
    { "send_chatbot_message", "upload_file_for_extraction",
      "create_new_session_with_context" }

-----------------------------------------------------------------------------
(* State machine                                                           *)

\* the tool names of a list of calls, in order
ToolNames(function_calls) == [i \in 1..Len(function_calls) |-> function_calls[i].name]

NoRet == [product |-> 0, was_updated |-> FALSE, missing |-> <<>>]

\* the last operation: its name, its inputs and what it returned
Turn(op) ==
    [ op |-> op, tools |-> <<>>, stage0 |-> "INDUSTRY", invoked |-> FALSE,
      reply |-> Reply("", "", 0), completed |-> FALSE, raised |-> FALSE,
      flushes |-> <<>>, updated |-> FALSE, ret |-> NoRet, commit_ok |-> TRUE,
      menu |-> <<>>, status0 |-> "ACTIVE" ]

\* the state after create_session
Init ==
    /\ onboarding_data = NewOnboarding
    /\ products = <<>>
    /\ status = "ACTIVE"
    /\ messages = <<>>
    /\ turn = Turn("create_session")
    /\ db_current = create_session(<<>>, FollowedUser)
    /\ pc = [p \in Requests |-> Idle]

\* handler.process_message(user_message) with the oracle answering ai_result
ProcessMessage(user_message, ai_result) ==
    \E r \in { process_message(onboarding_data, products, status, messages,
                                 user_message, ai_result) } :
        /\ Len(r.rows) <= MaxProducts
        /\ onboarding_data' = r.od
        /\ products' = r.rows
        /\ status' = r.status
        /\ UNCHANGED <<messages, db_current, pc>>
        /\ turn' = [ Turn("process_message") EXCEPT
                        !.tools = IF r.invoked /\ ~ai_result.error
                                  THEN ToolNames(ai_result.function_calls) ELSE <<>>,
                        !.stage0 = r.stage0, !.invoked = r.invoked, !.menu = r.menu,
                        !.reply = r.reply, !.completed = r.completed,
                        !.raised = r.raised, !.flushes = r.flushes ]

\* handler.process_message(user_message) with the oracle answering ai_result,
\* the commit of update_onboarding_data succeeding (commit_ok) or raising
ProcessMessageStorage(user_message, ai_result, commit_ok) ==
    \E r \in { IF commit_ok
                THEN process_message(onboarding_data, products, status, messages,
                                     user_message, ai_result)
                ELSE process_message_commit_failing(onboarding_data, products, status,
                                                    messages, user_message, ai_result) } :
        /\ Len(r.rows) <= MaxProducts
        /\ onboarding_data' = r.od
        /\ products' = r.rows
        /\ status' = r.status
        /\ UNCHANGED <<messages, db_current, pc>>
        /\ turn' = [ Turn("process_message") EXCEPT
                        !.tools = IF r.invoked /\ ~ai_result.error
                                  THEN ToolNames(ai_result.function_calls) ELSE <<>>,
                        !.stage0 = r.stage0, !.invoked = r.invoked, !.menu = r.menu,
                        !.reply = r.reply, !.completed = r.completed,
                        !.raised = r.raised, !.flushes = r.flushes,
                        !.commit_ok = commit_ok ]

\* send_chatbot_message running process_message before it logs the user message
SendChatbotMessage_processing_first(message, ai_result) ==
    \E r \in { process_message(onboarding_data, products,
                                 IF status = "COMPLETED" THEN "ACTIVE" ELSE status,
                                 messages, message, ai_result) } :
        /\ Len(r.rows) <= MaxProducts
        /\ onboarding_data' = r.od
        /\ products' = r.rows
        /\ status' = r.status
        /\ messages' = IF r.raised
                       THEN Append(messages, "user")
                       ELSE Append(messages, "user") \o << "assistant" >>
        /\ turn' = [ Turn("send_chatbot_message") EXCEPT
                        !.tools = IF r.invoked /\ ~ai_result.error
                                  THEN ToolNames(ai_result.function_calls) ELSE <<>>,
                        !.stage0 = r.stage0, !.invoked = r.invoked, !.menu = r.menu,
                        !.reply = r.reply, !.completed = r.completed,
                        !.raised = r.raised, !.flushes = r.flushes ]
        /\ UNCHANGED <<db_current, pc>>

\* send_chatbot_message with a session_id that loads no session: a session
\* is created, the two welcome messages are logged, process_message is not run
SendChatbotMessageNewSession ==
    /\ onboarding_data' = NewOnboarding
    /\ products' = <<>>
    /\ status' = "ACTIVE"
    /\ messages' = << "assistant", "assistant" >>
    /\ turn' = [ Turn("send_chatbot_message") EXCEPT !.reply = Reply("welcome", "", 0) ]
    /\ db_current' = create_session(db_current, FollowedUser)
    /\ UNCHANGED pc

\* send_chatbot_message leaving a COMPLETED session as it found it
SendChatbotMessage_not_reopening(message, ai_result) ==
    \E r \in { process_message(onboarding_data, products, status,
                                 Append(messages, "user"), message, ai_result) } :
        /\ Len(r.rows) <= MaxProducts
        /\ onboarding_data' = r.od
        /\ products' = r.rows
        /\ status' = r.status
        /\ messages' = IF r.raised
                       THEN Append(messages, "user")
                       ELSE Append(messages, "user") \o << "assistant" >>
        /\ turn' = [ Turn("send_chatbot_message") EXCEPT
                        !.tools = IF r.invoked /\ ~ai_result.error
                                  THEN ToolNames(ai_result.function_calls) ELSE <<>>,
                        !.stage0 = r.stage0, !.invoked = r.invoked, !.menu = r.menu,
                        !.status0 = status,
                        !.reply = r.reply, !.completed = r.completed,
                        !.raised = r.raised, !.flushes = r.flushes ]
        /\ UNCHANGED <<db_current, pc>>

\* send_chatbot_message on the session of the record, the oracle answering
\* ai_result: a COMPLETED session is reopened, the user message is logged,
\* process_message runs on the log that holds it, and the reply is logged
\* unless process_message raised (the endpoint then answers with status 500)
SendChatbotMessage(message, ai_result) ==
    \E r \in { process_message(onboarding_data, products,
                                 IF status = "COMPLETED" THEN "ACTIVE" ELSE status,
                                 Append(messages, "user"), message, ai_result) } :
        /\ Len(r.rows) <= MaxProducts
        /\ onboarding_data' = r.od
        /\ products' = r.rows
        /\ status' = r.status
        /\ messages' = IF r.raised
                       THEN Append(messages, "user")
                       ELSE Append(messages, "user") \o << "assistant" >>
        /\ turn' = [ Turn("send_chatbot_message") EXCEPT
                        !.tools = IF r.invoked /\ ~ai_result.error
                                  THEN ToolNames(ai_result.function_calls) ELSE <<>>,
                        !.stage0 = r.stage0, !.invoked = r.invoked, !.menu = r.menu,
                        !.status0 = status,
                        !.reply = r.reply, !.completed = r.completed,
                        !.raised = r.raised, !.flushes = r.flushes ]
        /\ UNCHANGED <<db_current, pc>>

\* AIChatbotHandlerTest.process_message(user_message) with the oracle answering
\* ai_result
TestProcessMessage(user_message, ai_result) ==
    \E r \in { Test_process_message(onboarding_data, products, status, messages,
                                      user_message, ai_result) } :
        /\ Len(r.rows) <= MaxProducts
        /\ onboarding_data' = r.od
        /\ products' = r.rows
        /\ status' = r.status
        /\ UNCHANGED <<messages, db_current, pc>>
        /\ turn' = [ Turn("test_process_message") EXCEPT
                        !.tools = IF r.invoked /\ ~ai_result.error
                                  THEN ToolNames(ai_result.function_calls) ELSE <<>>,
                        !.stage0 = r.stage0, !.invoked = r.invoked, !.menu = r.menu,
                        !.reply = r.reply, !.completed = r.completed,
                        !.raised = r.raised, !.flushes = r.flushes ]

\* handler.sync_stage_with_data()
SyncStageWithData ==
    /\ onboarding_data' = sync_stage_with_data(onboarding_data)
    /\ turn' = Turn("sync_stage_with_data")
    /\ UNCHANGED <<products, status, messages, db_current, pc>>

\* handler.advance_stage()
AdvanceStage ==
    /\ onboarding_data' = advance_stage(onboarding_data)
    /\ turn' = Turn("advance_stage")
    /\ UNCHANGED <<products, status, messages, db_current, pc>>

\* handler.save_product_from_draft()
SaveProductFromDraft ==
    \E r \in { save_product_from_draft(onboarding_data, products) } :
        /\ Len(r.rows) <= MaxProducts
        /\ onboarding_data' = r.od
        /\ products' = r.rows
        /\ turn' = [ Turn("save_product_from_draft") EXCEPT
                        !.ret = [NoRet EXCEPT !.product = r.product] ]
        /\ UNCHANGED <<status, messages, db_current, pc>>

\* handler.add_product(product_data)
AddProduct(product_data) ==
    \E r \in { add_product(products, product_data) } :
        /\ Len(r.rows) <= MaxProducts
        /\ products' = r.rows
        /\ turn' = [ Turn("add_product") EXCEPT
                        !.ret = [product |-> r.product, was_updated |-> r.was_updated,
                                 missing |-> r.missing] ]
        /\ UNCHANGED <<onboarding_data, status, messages, db_current, pc>>

\* upload_file_for_extraction on the session of the record, the extraction
\* answering function_calls
UploadFile(function_calls) ==
    \E r \in { upload_all([od |-> onboarding_data, rows |-> products,
                             data_updated |-> FALSE, products_added |-> 0],
                            function_calls) } :
        /\ Len(messages) < MaxLog
        /\ Len(r.rows) <= MaxProducts
        /\ onboarding_data' = r.od
        /\ products' = r.rows
        /\ messages' = Append(messages, "assistant")
        /\ turn' = [ Turn("upload_file") EXCEPT
                        !.tools = ToolNames(function_calls),
                        !.updated = r.data_updated,
                        !.reply = Reply("file_processed", "", r.products_added) ]
        /\ UNCHANGED <<status, db_current, pc>>

\* create_new_session_with_context: the handler is bound to the new session,
\* whose record holds a copy of the data of the user's current record
CreateNewSessionWithContext ==
    /\ onboarding_data' = copy_company_data(onboarding_data)
    /\ products' = copy_products(products)
    /\ status' = "ACTIVE"
    /\ messages' = IF Truthy(onboarding_data.industry)
                   THEN << "assistant" >>
                   ELSE << "assistant", "assistant" >>
    /\ turn' = Turn("create_new_session_with_context")
    /\ db_current' = create_session(db_current, FollowedUser)
    /\ UNCHANGED pc

\* create_session of request p, first commit: the ChatSession row
CreateSessionAdd(p, user_id, endpoint) ==
    /\ pc[p].at = "idle"
    /\ db_current' = add_session(db_current, user_id)
    /\ pc' = [q \in Requests |->
                IF q = p
                THEN [at |-> "session_added", user_id |-> user_id,
                      latest |-> TRUE, endpoint |-> endpoint]
                ELSE IF pc[q].user_id = user_id
                THEN [pc[q] EXCEPT !.latest = FALSE]
                ELSE pc[q]]
    /\ UNCHANGED <<onboarding_data, products, status, messages, turn>>

\* create_session of request p, second commit: the update of is_current
CreateSessionDemote(p) ==
    /\ pc[p].at = "session_added"
    /\ db_current' = demote_current(db_current, pc[p].user_id)
    /\ pc' = [pc EXCEPT ![p].at = "demoted"]
    /\ UNCHANGED <<onboarding_data, products, status, messages, turn>>

\* create_session of request p, third commit: the new CompanyOnboarding row
CreateSessionRecord(p) ==
    /\ pc[p].at = "demoted"
    /\ db_current' = add_current_record(db_current, pc[p].user_id, pc[p].latest)
    /\ pc' = [pc EXCEPT ![p] = Idle]
    /\ UNCHANGED <<onboarding_data, products, status, messages, turn>>

\* send_chatbot_message of user_id with session_id: on the followed session if
\* the handler loads it; otherwise a session is created for user_id, which for
\* another user leaves the followed session alone
SendChatbotMessageAs(user_id, session_id, message, ai_result) ==
    IF load_session(user_id, session_id)
    THEN /\ Len(messages) + 2 <= MaxHistory
         /\ SendChatbotMessage(message, ai_result)
    ELSE IF user_id = FollowedUser
    THEN SendChatbotMessageNewSession
    ELSE /\ db_current' = create_session(db_current, user_id)
         /\ turn' = [ Turn("send_chatbot_message") EXCEPT
                        !.reply = Reply("welcome", "", 0) ]
         /\ UNCHANGED <<onboarding_data, products, status, messages, pc>>

\* upload_file_for_extraction of user_id with session_id, the extraction
\* answering function_calls: on the followed session if the handler loads it;
\* otherwise on the record of a session created for user_id
UploadFileAs(user_id, session_id, function_calls) ==
    IF load_session(user_id, session_id)
    THEN UploadFile(function_calls)
    ELSE IF user_id = FollowedUser
    THEN \E r \in { upload_all([od |-> NewOnboarding, rows |-> <<>>,
                                 data_updated |-> FALSE, products_added |-> 0],
                                function_calls) } :
            /\ onboarding_data' = r.od
            /\ products' = r.rows
            /\ status' = "ACTIVE"
            /\ messages' = << "assistant" >>
            /\ turn' = [ Turn("upload_file") EXCEPT
                            !.tools = ToolNames(function_calls),
                            !.updated = r.data_updated,
                            !.reply = Reply("file_processed", "", r.products_added) ]
            /\ db_current' = create_session(db_current, FollowedUser)
            /\ UNCHANGED pc
    ELSE /\ db_current' = create_session(db_current, user_id)
         /\ turn' = [ Turn("upload_file") EXCEPT !.tools = ToolNames(function_calls) ]
         /\ UNCHANGED <<onboarding_data, products, status, messages, pc>>

-----------------------------------------------------------------------------
(* The inputs: what the user, the oracle and the file extraction supply     *)

\* the amount an integer attribute is given: the int that is falsy
Amounts == { 0 }

Industry == PyStr(<< "f" >>)

\* "a, b"
EsgTwo == << "a", ",", " ", "b" >>

\* the one-character string U+7121, the answer the ESG question asks for when
\* the company holds no certification
EsgWu == << "U7121" >>

\* "-"
EsgDash == << "-" >>

\* a string that is no number
NotANumber == PyStr(<< "x" >>)

Call(name, f) == [name |-> name, arguments |-> Dict(f)]

\* update_company_data naming one attribute, with a value of the schema's type
SingleFieldCalls ==
    { Call("update_company_data", "industry" :> Industry),
      Call("update_company_data", "esg_certification" :> PyStr(EsgWu)) }
        \cup { Call("update_company_data", k :> PyInt(n)) : k \in IntKeys, n \in Amounts }

FieldCall(field, value) ==
    Call("update_company_field", "field" :> PyStr(<< field >>) @@ "value" :> value)

\* update_company_field, as offered from the PRODUCT stage on
CompanyFieldCalls ==
    { FieldCall("esg_certification", PyStr(EsgDash)) }

CompanyCalls == SingleFieldCalls \cup CompanyFieldCalls

\* what the extraction of an uploaded file calls update_company_data with:
\* several attributes at once, values the handler does not store, the count
UploadCalls ==
    { Call("update_company_data", "industry" :> Industry @@ "capital_amount" :> PyInt(0)),
      Call("update_company_data", "industry" :> PyStr(<<>>) @@ "certification_count" :> PyInt(0)),
      Call("update_company_data", "industry" :> Industry @@ "capital_amount" :> NotANumber),
      Call("update_company_data", "esg_certification_count" :> PyInt(5)),
      Call("update_company_data",
           "esg_certification" :> PyStr(EsgTwo) @@ "esg_certification_count" :> PyInt(5)) }

\* the lists of at most n calls of a set
RECURSIVE CallLists(_, _)
CallLists(calls, n) ==
    IF n = 0 THEN { <<>> }
    ELSE LET shorter == CallLists(calls, n - 1)
         IN  shorter \cup { Append(l, c) : l \in { x \in shorter : Len(x) = n - 1 }, c \in calls }

\* what extract_data_with_ai returns: an error, or a message and the calls
AiError == [error |-> TRUE, message |-> "", function_calls |-> <<>>]

AiResults(calls, n) ==
    { AiError }
        \cup { [error |-> FALSE, message |-> "", function_calls |-> l] :
                    l \in CallLists(calls, n) }

\* the first message of a session: a menu choice or anything else
MenuMessages == { "1", "2", "3", "hello" }

UserMessages == IF messages = <<>> THEN MenuMessages ELSE { "hello" }

-----------------------------------------------------------------------------
(* Company data: chat turns, file uploads and new sessions                 *)

CompanyAiResults == AiResults(CompanyCalls, MaxCalls)

UploadCallLists == CallLists(UploadCalls, MaxCalls)

NextCompany ==
    \/ \E m \in UserMessages, a \in CompanyAiResults : ProcessMessage(m, a)
    \/ SyncStageWithData
    \/ \E l \in UploadCallLists : UploadFile(l)
    \/ CreateNewSessionWithContext

SpecCompany == Init /\ [][NextCompany]_vars

-----------------------------------------------------------------------------
(* Imported data: a record filled by uploads and copies, then chat turns   *)

\* the three counts, as one extraction reports them
Counts ==
    "invention_patent_count" :> PyInt(0) @@ "utility_patent_count" :> PyInt(0)
        @@ "certification_count" :> PyInt(0)

\* what the oracle answers in a chat turn on an imported record; the bool True
\* of mark_completed is the int 1
ImportChatCalls ==
    { Call("update_company_data", "industry" :> Industry),
      Call("update_company_data", "capital_amount" :> PyInt(0)),
      Call("update_company_data", "esg_certification" :> PyStr(EsgTwo)),
      FieldCall("esg_certification", PyStr(EsgDash)),
      Call("mark_completed", "completed" :> PyInt(1)) }

\* what the extraction of an uploaded file reports
ImportUploadCalls ==
    { Call("update_company_data", "industry" :> Industry @@ "capital_amount" :> PyInt(0)),
      Call("update_company_data", Counts @@ "esg_certification" :> PyStr(EsgTwo)),
      Call("update_company_data", "industry" :> PyStr(<<>>) @@ "certification_count" :> PyInt(0)) }

ImportAiResults == AiResults(ImportChatCalls, MaxCalls)

ImportUploadLists == CallLists(ImportUploadCalls, MaxCalls)

NextImport ==
    \/ \E m \in UserMessages, a \in ImportAiResults : ProcessMessage(m, a)
    \/ SyncStageWithData
    \/ \E l \in ImportUploadLists : UploadFile(l)
    \/ CreateNewSessionWithContext

SpecImport == Init /\ [][NextImport]_vars

-----------------------------------------------------------------------------
(* Products: the draft filled field by field, bulk adds, uploads           *)

\* the product ids of the model: "p1", "p2", ...
Pid(i) == PyStr(<< "p", DigitChars[i + 1] >>)

\* a product dict with every field but product_id holding the text c
Full(pid, c) ==
    [f \in ProductKeys |-> IF f = "product_id" THEN pid ELSE PyStr(<< c >>)]

\* a bulk submission that lacks the price
MissingPrice == [Full(Pid(1), "w") EXCEPT !["price"] = Absent]

\* a bulk submission that carries a product_id and a new name only
Partial ==
    [f \in ProductKeys |->
        CASE f = "product_id" -> Pid(1)
          [] f = "product_name" -> PyStr(<< "x" >>)
          [] OTHER -> Absent]

\* what add_product and add_complete_product are called with
BulkDicts == { Full(Pid(i), "w") : i \in 1..MaxPid } \cup { MissingPrice, Partial }

\* an extraction that reports all six company attributes
CompanyAll ==
    Call("update_company_data",
         "industry" :> Industry @@ "capital_amount" :> PyInt(0) @@ Counts
            @@ "esg_certification" :> PyStr(EsgTwo))

\* the calls of the tools get_state_aware_tools offers for the record as
\* process_message finds it: update_company_data with the attribute of the
\* stage, or collect_product_field with the current product field and
\* add_complete_product
OfferedCalls ==
    LET od == sync_stage_with_data(onboarding_data)
        stage == get_current_stage(od)
        field_key == STAGE_TO_FIELD[stage]
        product_field == IF od.current_product_field = NoField
                         THEN "product_id" ELSE od.current_product_field
        Collect(value) ==
            Call("collect_product_field",
                 "field" :> PyStr(<< product_field >>) @@ "value" :> value)
    IN  IF stage = "PRODUCT"
        THEN (IF product_field = "product_id"
              THEN { Collect(Pid(i)) : i \in 1..MaxPid }
              ELSE { Collect(PyStr(<< "v" >>)) })
                \cup { [name |-> "add_complete_product",
                        arguments |-> Dict(pd)] : pd \in { Full(Pid(1), "w"), MissingPrice } }
        ELSE { Call("update_company_data",
                    field_key :> (CASE field_key = "industry" -> Industry
                                    [] field_key = "esg_certification" -> PyStr(EsgTwo)
                                    [] OTHER -> PyInt(0))) }

ProductUploadLists ==
    CallLists({ CompanyAll,
                [name |-> "add_product", arguments |-> Dict(Full(Pid(1), "w"))] },
              MaxCalls)

NextProduct ==
    \/ \E m \in UserMessages, a \in AiResults(OfferedCalls, MaxOffered) : ProcessMessage(m, a)
    \/ SaveProductFromDraft
    \/ \E pd \in BulkDicts : AddProduct(pd)
    \/ \E l \in ProductUploadLists : UploadFile(l)

SpecProduct == Init /\ [][NextProduct]_vars

-----------------------------------------------------------------------------
(* Properties of the company stages                                        *)

StageIndex(stage) == IndexOf(STAGE_ORDER, stage)

CompanyStages == { STAGE_ORDER[i] : i \in 1..6 }

\* an attribute holds a value: a non-empty string, or an int (0 included)
Populated(od, k) == IF k \in IntKeys THEN od[k] # None ELSE Truthy(od[k])

\* the stage of the first unpopulated attribute, PRODUCT when there is none
FirstUnpopulated(od, stage) ==
    /\ \A i \in 1..6 :
          stage = STAGE_ORDER[i] <=>
              /\ ~Populated(od, STAGE_TO_FIELD[STAGE_ORDER[i]])
              /\ \A j \in 1..(i - 1) : Populated(od, STAGE_TO_FIELD[STAGE_ORDER[j]])
    /\ stage = "PRODUCT" <=> \A i \in 1..6 : Populated(od, STAGE_TO_FIELD[STAGE_ORDER[i]])
    /\ stage # "COMPLETED"

\* a turn of process_message in which the oracle answered with
\* update_company_data calls only, n of them at least
CompanyDataTurn(t, n) ==
    /\ t.op = "process_message"
    /\ t.invoked
    /\ t.stage0 \in CompanyStages
    /\ Len(t.tools) >= n
    /\ \A i \in 1..Len(t.tools) : t.tools[i] = "update_company_data"

\* C1: in a turn at company stage S with one update_company_data call, the
\* call writes only the attribute mapped to S (and the derived
\* esg_certification_count at the ESG stage); every other company attribute
\* keeps its previous value.
C1_WritesOnlyStageAttribute ==
    [][ (CompanyDataTurn(turn', 1) /\ Len(turn'.tools) = 1) =>
            /\ \A k \in CompanyKeys \ { STAGE_TO_FIELD[turn'.stage0] } :
                    onboarding_data'[k] = onboarding_data[k]
            /\ turn'.stage0 # "ESG_CERTIFICATION" =>
                    onboarding_data'.esg_certification_count
                        = onboarding_data.esg_certification_count ]_vars

\* C2: after a turn at company stage S with update_company_data calls, the
\* stage is the successor of S when the attribute of S was written, is S when
\* nothing was written, and is never more than one position past S.
C2_AdvancesOneStage ==
    [][ CompanyDataTurn(turn', 1) =>
            LET S == turn'.stage0
                after == onboarding_data'.current_stage
            IN  /\ onboarding_data'[STAGE_TO_FIELD[S]] # onboarding_data[STAGE_TO_FIELD[S]]
                      => after = STAGE_ORDER[StageIndex(S) + 1]
                /\ (\A k \in CompanyKeys : onboarding_data'[k] = onboarding_data[k])
                      => after = S
                /\ StageIndex(after) <= StageIndex(S) + 1 ]_vars

\* the entries of a certification string as the handler documents them: split
\* at comma, Chinese comma (U+FF0C), semicolon (U+FF1B too) and newline, none
\* for the answers U+7121 and "-"
EntryCount(certification_str) ==
    IF certification_str \in { EsgWu, EsgDash } THEN 0
    ELSE LET pieces == re_split({ ",", "UFF0C", ";", "UFF1B", "NL" }, certification_str)
         IN  Cardinality({ i \in 1..Len(pieces) : strip(pieces[i]) # <<>> })

\* C3: the stored esg_certification_count is the number of entries of the
\* stored esg_certification string (0 for U+7121 and for "-"), and there is no
\* count without a string.
C3_EsgCountDerived ==
    IF onboarding_data.esg_certification = None
    THEN onboarding_data.esg_certification_count = None
    ELSE onboarding_data.esg_certification_count
            = PyInt(EntryCount(onboarding_data.esg_certification.s))

\* C4: sync_stage_with_data leaves the stage of the first unpopulated attribute
\* in the order of the six attributes, PRODUCT when all six are populated, and
\* never COMPLETED.
C4_SyncYieldsFirstUnpopulated ==
    turn.op = "sync_stage_with_data"
        => FirstUnpopulated(onboarding_data, onboarding_data.current_stage)

\* industry set, capital_amount written by a file upload, invention_patent_count
\* empty: the sync has moved the stage to INVENTION_PATENT_COUNT
C4_Witness ==
    /\ turn.op = "sync_stage_with_data"
    /\ messages = << "assistant" >>
    /\ Populated(onboarding_data, "industry")
    /\ onboarding_data.capital_amount = PyInt(0)
    /\ onboarding_data.invention_patent_count = None
    /\ onboarding_data.current_stage = "INVENTION_PATENT_COUNT"

\* C5: right after sync_stage_with_data, a second sync_stage_with_data leaves
\* current_stage, current_product_field and current_product_draft as they are.
C5_SyncIdempotent ==
    turn.op = "sync_stage_with_data" =>
        LET again == sync_stage_with_data(onboarding_data)
        IN  /\ again.current_stage = onboarding_data.current_stage
            /\ again.current_product_field = onboarding_data.current_product_field
            /\ again.current_product_draft = onboarding_data.current_product_draft

\* a sync that found all six attributes populated has run
C5_Witness ==
    /\ turn.op = "sync_stage_with_data"
    /\ onboarding_data.current_stage = "PRODUCT"
    /\ onboarding_data.current_product_field = "product_id"
    /\ onboarding_data.current_product_draft = json_dumps(EmptyDraft)

\* C6: when process_message invokes the oracle at a company stage, the
\* attribute of that stage is unpopulated and the attributes of the earlier
\* stages are populated.
C6_OracleAskedForFirstUnpopulated ==
    [][ (turn'.op = "process_message" /\ turn'.invoked /\ turn'.stage0 \in CompanyStages)
            => /\ ~Populated(onboarding_data, STAGE_TO_FIELD[turn'.stage0])
               /\ \A j \in 1..(StageIndex(turn'.stage0) - 1) :
                      Populated(onboarding_data, STAGE_TO_FIELD[STAGE_ORDER[j]]) ]_vars

\* the oracle was asked for invention_patent_count in a session whose record
\* got industry and capital_amount from an upload or from a copy
C6_Witness ==
    /\ turn.op = "process_message"
    /\ turn.invoked
    /\ turn.tools = <<>>
    /\ turn.stage0 = "INVENTION_PATENT_COUNT"
    /\ messages = << "assistant" >>
    /\ onboarding_data.capital_amount # None
    /\ onboarding_data.invention_patent_count = None

-----------------------------------------------------------------------------
(* Properties of the products                                              *)

\* all six product fields of a dict hold non-empty values
DraftComplete(d) == \A f \in ProductKeys : Truthy(Get(d, f))

\* the required fields a submission lacks
Lacks(pd) == { f \in ProductKeys : ~Truthy(Get(pd, f)) }

\* a row of the rows carries the product_id
HasId(rows, pid) == \E i \in 1..Len(rows) : rows[i].product_id = pid

PosOf(rows, pid) == CHOOSE i \in 1..Len(rows) : rows[i].product_id = pid

\* the oracle answering with one add_complete_product call
OneBulkCall(pd) ==
    [ error |-> FALSE, message |-> "",
      function_calls |-> << [name |-> "add_complete_product", arguments |-> Dict(pd)] >> ]

\* a turn of process_message whose calls are all collect_product_field
CollectTurn(t) ==
    /\ t.op = "process_message"
    /\ \A i \in 1..Len(t.tools) : t.tools[i] = "collect_product_field"

\* C7: save_product_from_draft returns a Product only for a draft whose six
\* keys all hold non-empty values, and with an incomplete draft it writes
\* nothing. Every flush of a chat turn is of a complete draft; a turn of
\* collect_product_field calls with one flush leaves the row of the draft's
\* product_id with the six values of the draft, and such a turn without a
\* flush leaves the Product rows as they are.
C7_FlushOnlyCompleteDraft ==
    [][ /\ turn'.op = "save_product_from_draft" =>
              LET draft == get_product_draft(onboarding_data)
              IN  /\ turn'.ret.product # 0 => DraftComplete(draft)
                  /\ ~DraftComplete(draft) =>
                        /\ turn'.ret.product = 0
                        /\ products' = products
                        /\ onboarding_data' = onboarding_data
        /\ turn'.op = "process_message" =>
              \A i \in 1..Len(turn'.flushes) : DraftComplete(turn'.flushes[i])
        /\ (CollectTurn(turn') /\ Len(turn'.flushes) = 1) =>
              LET draft == turn'.flushes[1]
              IN  /\ HasId(products', Get(draft, "product_id"))
                  /\ products'[PosOf(products', Get(draft, "product_id"))] = ProductRow(draft)
        /\ (CollectTurn(turn') /\ turn'.flushes = <<>>) => products' = products ]_vars

\* the sixth collect_product_field of a product has flushed the draft
C7_Witness ==
    /\ turn.op = "process_message"
    /\ turn.tools = << "collect_product_field" >>
    /\ Len(turn.flushes) = 1
    /\ Len(products) = 1
    /\ products[1] = ProductRow(Full(Pid(1), "v"))

\* C8: add_product with a required field missing or empty returns no product
\* and the display names of exactly the missing fields, and changes no row;
\* a chat turn with such an add_complete_product call changes no row and
\* leaves the draft and the product field pointer as the turn found them.
C8_BulkAddRejectsMissing ==
    [][ \A pd \in BulkDicts :
            Lacks(pd) # {} =>
                /\ AddProduct(pd) =>
                        /\ turn'.ret.product = 0
                        /\ ~turn'.ret.was_updated
                        /\ Len(turn'.ret.missing) = Cardinality(Lacks(pd))
                        /\ Range(turn'.ret.missing) = { REQUIRED_DISPLAY[f] : f \in Lacks(pd) }
                        /\ products' = products
                        /\ onboarding_data' = onboarding_data
                /\ (messages # <<>> /\ ProcessMessage("hello", OneBulkCall(pd))) =>
                        LET found == sync_stage_with_data(onboarding_data)
                        IN  /\ products' = products
                            /\ onboarding_data'.current_product_draft
                                    = found.current_product_draft
                            /\ onboarding_data'.current_product_field
                                    = found.current_product_field ]_vars

\* add_product was called without a price for a product_id that has a row
C8_Witness ==
    /\ turn.op = "add_product"
    /\ turn.ret.product = 0
    /\ turn.ret.missing = << REQUIRED_DISPLAY["price"] >>
    /\ Len(products) = 1
    /\ products[1].product_id = Pid(1)

\* C9: no two Product rows share a product_id; add_product with a product_id
\* that has a row, and the flush of a draft with such a product_id, update
\* that row and add none.
C9_NoDuplicateProductId ==
    [][ /\ \A i, j \in 1..Len(products') :
                products'[i].product_id = products'[j].product_id => i = j
        /\ \A pd \in BulkDicts :
                (Lacks(pd) = {} /\ HasId(products, pd["product_id"]) /\ AddProduct(pd))
                    => /\ Len(products') = Len(products)
                       /\ turn'.ret.was_updated
                       /\ turn'.ret.product = PosOf(products, pd["product_id"])
        /\ ( /\ CollectTurn(turn')
              /\ Len(turn'.flushes) = 1
              /\ HasId(products, Get(turn'.flushes[1], "product_id")) )
                => Len(products') = Len(products) ]_vars

\* one upload with two add_product calls of the same product_id left one row
C9_Witness ==
    /\ turn.op = "upload_file"
    /\ turn.tools = << "add_product", "add_product" >>
    /\ turn.reply.n = 2
    /\ Len(products) = 1

\* C10 as the specification states it: add_product with a product_id that has
\* a row and only some of the other five fields non-empty overwrites the
\* non-empty fields on the row and keeps the others.
C10_PartialOverwrite ==
    [][ \A pd \in BulkDicts :
            ( /\ HasId(products, pd["product_id"])
              /\ Lacks(pd) # {}
              /\ Lacks(pd) # ProductKeys \ { "product_id" }
              /\ AddProduct(pd) )
                => LET e == PosOf(products, pd["product_id"])
                   IN  \A f \in ProductKeys \ { "product_id" } :
                           products'[e][f] = IF Truthy(Get(pd, f))
                                             THEN Get(pd, f) ELSE products[e][f] ]_vars

\* C10 as the code has it: add_product with a product_id that has a row
\* overwrites the five other fields of that row when all six fields are
\* non-empty, adding no row and changing no other row; with any field missing
\* or empty it changes nothing.
C10_FullOverwriteOrReject ==
    [][ \A pd \in BulkDicts :
            (HasId(products, pd["product_id"]) /\ AddProduct(pd))
                => LET e == PosOf(products, pd["product_id"])
                   IN  IF Lacks(pd) = {}
                       THEN /\ Len(products') = Len(products)
                            /\ products'[e] = [ProductRow(pd) EXCEPT
                                                    !["product_id"] = products[e].product_id]
                            /\ \A i \in 1..Len(products) : i # e => products'[i] = products[i]
                       ELSE products' = products ]_vars

\* add_product has replaced the row of an existing product_id
C10_Witness ==
    /\ turn.op = "add_product"
    /\ turn.ret.was_updated
    /\ turn.ret.product = 1
    /\ products = << ProductRow(Full(Pid(1), "w")) >>

-----------------------------------------------------------------------------
(* Turns that dispatch nothing: no tool call, or a failed oracle           *)

\* the record is where sync_stage_with_data would leave it
InSync(od) ==
    /\ FirstUnpopulated(od, od.current_stage)
    /\ od.current_stage = "PRODUCT" => od.current_product_field # NoField

\* the field the record expects next
ExpectedField(od) ==
    IF od.current_stage = "PRODUCT" THEN od.current_product_field ELSE od.current_stage

\* what a turn that dispatches nothing leaves: the attributes, the products and
\* the session status as they were, the stage of the first unpopulated
\* attribute, the pointer and the draft as they were unless the record enters
\* PRODUCT without a pointer
NothingDispatched ==
    /\ \A k \in CompanyKeys \cup { "esg_certification_count" } :
            onboarding_data'[k] = onboarding_data[k]
    /\ products' = products
    /\ status' = status
    /\ FirstUnpopulated(onboarding_data, onboarding_data'.current_stage)
    /\ IF onboarding_data'.current_stage = "PRODUCT"
             /\ onboarding_data.current_product_field = NoField
       THEN /\ onboarding_data'.current_product_field = "product_id"
            /\ get_product_draft(onboarding_data') = EmptyDraft
       ELSE /\ onboarding_data'.current_product_field
                    = onboarding_data.current_product_field
            /\ onboarding_data'.current_product_draft
                    = onboarding_data.current_product_draft
    /\ InSync(onboarding_data) => onboarding_data' = onboarding_data

\* a turn in which the oracle answered with no tool call
EmptyTurn(t) == t.op = "process_message" /\ t.invoked /\ t.reply.kind = "please_provide"

\* a turn in which the oracle failed
ErrorTurn(t) == t.op = "process_message" /\ t.invoked /\ t.reply.kind = "retry_after_error"

\* C11 as stated: a turn whose oracle answer holds no tool call leaves the
\* whole stored record, products included, unchanged, whatever the stored
\* stage, and re-requests the expected field
C11_EmptyTurnLeavesRecord ==
    [][ EmptyTurn(turn')
            => /\ onboarding_data' = onboarding_data
               /\ products' = products
               /\ turn'.reply.name = ExpectedField(onboarding_data')
               /\ ~turn'.completed ]_vars

\* C11: a turn whose oracle answer holds no tool call changes nothing but what
\* the synchronisation at its start changes: attributes, products and status
\* stay, the stage becomes that of the first unpopulated attribute, a record
\* already in sync is left as it is; the reply re-requests the expected field
C11_EmptyTurnOnlySyncs ==
    [][ EmptyTurn(turn')
            => /\ NothingDispatched
               /\ turn'.reply.name = ExpectedField(onboarding_data')
               /\ ~turn'.completed ]_vars

\* an empty answer on a record whose stage was COMPLETED: the stage is back at
\* PRODUCT, the attributes are the six the record held
C11_Witness ==
    /\ EmptyTurn(turn)
    /\ status = "COMPLETED"
    /\ onboarding_data.current_stage = "PRODUCT"
    /\ turn.reply.name = "product_id"
    /\ \A k \in CompanyKeys : Populated(onboarding_data, k)

\* C12 as stated: a turn whose oracle fails returns the retry prompt with
\* completed False and leaves the stored record, the products and the session
\* status exactly as they were
C12_ErrorTurnLeavesRecord ==
    [][ ErrorTurn(turn')
            => /\ onboarding_data' = onboarding_data
               /\ products' = products
               /\ status' = status
               /\ ~turn'.completed ]_vars

\* C12: a turn whose oracle fails returns the retry prompt for the stage with
\* completed False and changes nothing but what the synchronisation at its
\* start changes: attributes, products and session status stay
C12_ErrorTurnOnlySyncs ==
    [][ ErrorTurn(turn')
            => /\ NothingDispatched
               /\ turn'.reply.name = onboarding_data'.current_stage
               /\ turn'.tools = <<>>
               /\ ~turn'.completed ]_vars

\* the oracle failed on a record an upload had filled up to capital_amount: the
\* retry prompt names INVENTION_PATENT_COUNT, the session is still ACTIVE
C12_Witness ==
    /\ ErrorTurn(turn)
    /\ status = "ACTIVE"
    /\ turn.reply.name = "INVENTION_PATENT_COUNT"
    /\ onboarding_data.current_stage = "INVENTION_PATENT_COUNT"
    /\ onboarding_data.capital_amount = PyInt(0)

-----------------------------------------------------------------------------
(* Completion                                                              *)

\* the tool t is among the calls the turn dispatched
Dispatched(t, tool) == \E i \in 1..Len(t.tools) : t.tools[i] = tool

ProcessTurn(t) == t.op = "process_message"

\* C13: the session status becomes COMPLETED only in a turn that dispatches
\* mark_completed with completed true; a turn that populates the sixth company
\* attribute without it leaves the status as it was and the stage at PRODUCT; a
\* turn whose only call is a mark_completed that does not complete changes
\* neither status nor stage
C13_CompletedOnlyByMark ==
    [][ /\ ( (status' = "COMPLETED" /\ status # "COMPLETED")
                 => (ProcessTurn(turn') /\ Dispatched(turn', "mark_completed")) )
        /\ ( ( /\ ProcessTurn(turn')
               /\ ~Dispatched(turn', "mark_completed")
               /\ \E k \in CompanyKeys : ~Populated(onboarding_data, k)
               /\ \A k \in CompanyKeys : Populated(onboarding_data', k) )
                 => (status' = status /\ onboarding_data'.current_stage = "PRODUCT") )
        /\ ( (ProcessTurn(turn') /\ turn'.tools = << "mark_completed" >> /\ ~turn'.completed)
                 => ( /\ status' = status
                      /\ onboarding_data'.current_stage
                             = sync_stage_with_data(onboarding_data).current_stage ) )
       ]_vars

\* C14: current_stage becomes COMPLETED only in a turn that dispatches
\* mark_completed with completed true, whatever the other calls and the stage
C14_StageCompletedOnlyByMark ==
    [][ (onboarding_data'.current_stage = "COMPLETED"
            /\ onboarding_data.current_stage # "COMPLETED")
            => ProcessTurn(turn') /\ Dispatched(turn', "mark_completed") /\ turn'.completed
      ]_vars

\* C15: once current_stage is COMPLETED every later turn of process_message
\* leaves it COMPLETED
C15_CompletedIsTerminal ==
    [][ (onboarding_data.current_stage = "COMPLETED" /\ ProcessTurn(turn'))
            => onboarding_data'.current_stage = "COMPLETED" ]_vars

-----------------------------------------------------------------------------
(* The company stages in order                                             *)

\* a turn at a company stage in which the oracle answered with exactly one
\* update_company_data call
OneDataCallTurn(t) ==
    /\ ProcessTurn(t)
    /\ t.invoked
    /\ t.stage0 \in CompanyStages
    /\ t.tools = << "update_company_data" >>

\* C18: a turn that dispatches one update_company_data call carrying a valid
\* value for the attribute of the stage populates that attribute and moves the
\* stage to its successor in STAGE_ORDER, so that six such turns from an empty
\* record visit the six company stages once each, in order; the sixth leaves
\* the stage at PRODUCT, the pointer at product_id and the draft empty
C18_SixTurnsReachProduct ==
    [][ OneDataCallTurn(turn')
            => /\ ~Populated(onboarding_data, STAGE_TO_FIELD[turn'.stage0])
               /\ Populated(onboarding_data', STAGE_TO_FIELD[turn'.stage0])
               /\ \A i \in 1..6 :
                      (i < StageIndex(turn'.stage0))
                          => Populated(onboarding_data, STAGE_TO_FIELD[STAGE_ORDER[i]])
               /\ onboarding_data'.current_stage
                      = STAGE_ORDER[StageIndex(turn'.stage0) + 1]
               /\ (turn'.stage0 = "ESG_CERTIFICATION")
                      => ( /\ onboarding_data'.current_stage = "PRODUCT"
                           /\ onboarding_data'.current_product_field = "product_id"
                           /\ ~onboarding_data'.current_product_draft.isnull
                           /\ get_product_draft(onboarding_data') = EmptyDraft
                           /\ status' = status ) ]_vars

\* the sixth turn has run on a record no upload has written to: all six
\* attributes populated, stage PRODUCT, pointer product_id, empty draft
C18_Witness ==
    /\ OneDataCallTurn(turn)
    /\ turn.stage0 = "ESG_CERTIFICATION"
    /\ onboarding_data.esg_certification = PyStr(EsgTwo)
    /\ onboarding_data.esg_certification_count = PyInt(2)
    /\ onboarding_data.capital_amount = PyInt(0)
    /\ onboarding_data.current_stage = "PRODUCT"
    /\ onboarding_data.current_product_field = "product_id"
    /\ get_product_draft(onboarding_data) = EmptyDraft
    /\ products = <<>>
    /\ status = "ACTIVE"

-----------------------------------------------------------------------------
(* Product fields from an oracle that is not held to the offered tools     *)

\* collect_product_field naming any product field or a name that is none
AnyFieldNames == Range(PRODUCT_FIELD_ORDER) \cup { "serial_no" }

CollectCall(field) ==
    Call("collect_product_field",
         "field" :> PyStr(<< field >>) @@ "value" :> PyStr(<< "v" >>))

AnyOracleCalls == { CollectCall(f) : f \in AnyFieldNames }

AnyOracleResults == AiResults(AnyOracleCalls, MaxOffered)

NextAnyOracle ==
    \/ \E m \in UserMessages, a \in AnyOracleResults : ProcessMessage(m, a)
    \/ \E l \in CallLists({ CompanyAll }, MaxOffered) : UploadFile(l)

SpecAnyOracle == Init /\ [][NextAnyOracle]_vars

\* the oracle answering with one collect_product_field call
OneCollectCall(field) ==
    [ error |-> FALSE, message |-> "", function_calls |-> << CollectCall(field) >> ]

\* C19: a collect_product_field call whose field is not the field the record
\* expects is ignored: the draft and the pointer stay as the turn found them
C19_UnexpectedFieldIgnored ==
    [][ \A f \in AnyFieldNames :
            ( /\ ProcessMessage("hello", OneCollectCall(f))
              /\ turn'.invoked
              /\ turn'.stage0 = "PRODUCT"
              /\ f # sync_stage_with_data(onboarding_data).current_product_field )
                => ( /\ get_product_draft(onboarding_data')
                            = get_product_draft(sync_stage_with_data(onboarding_data))
                     /\ onboarding_data'.current_product_field
                            = sync_stage_with_data(onboarding_data).current_product_field
                     /\ products' = products ) ]_vars

\* C20: the keys of the product draft are among the six product field names
C20_DraftKeysAreProductFields ==
    \A k \in DraftKeys : Has(get_product_draft(onboarding_data), k) => k \in ProductKeys

-----------------------------------------------------------------------------
(* Sessions: which record of a user is the current one                     *)

\* no other request is inside create_session
Alone(p) == \A q \in Requests \ { p } : pc[q].at = "idle"

\* calls of create_session that do not overlap
NextSessions ==
    \/ \E p \in Requests, u \in Users, e \in SessionEndpoints :
            Alone(p) /\ CreateSessionAdd(p, u, e)
    \/ \E p \in Requests : Alone(p) /\ CreateSessionDemote(p)
    \/ \E p \in Requests : Alone(p) /\ CreateSessionRecord(p)

SpecSessions == Init /\ [][NextSessions]_vars

\* calls of create_session interleaved commit by commit
NextRace ==
    \/ \E p \in Requests, u \in Users, e \in SessionEndpoints : CreateSessionAdd(p, u, e)
    \/ \E p \in Requests : CreateSessionDemote(p)
    \/ \E p \in Requests : CreateSessionRecord(p)

SpecRace == Init /\ [][NextRace]_vars

\* the rows of the user that have is_current set
CurrentOf(rows, user_id) == SelectSeq(rows, LAMBDA row : row.user_id = user_id)

\* C16: with calls of create_session that do not overlap, whenever no call is
\* running every user has at most one current record and it belongs to the
\* user's most recent session; a call that finishes leaves its user with exactly
\* one, and no step of a call touches the current record of another user
C16_OneCurrentRecord ==
    [][ /\ (\A p \in Requests : pc'[p].at = "idle")
             => \A u \in Users :
                   /\ Len(CurrentOf(db_current', u)) <= 1
                   /\ \A i \in 1..Len(CurrentOf(db_current', u)) :
                         CurrentOf(db_current', u)[i].latest
        /\ \A p \in Requests :
             /\ (pc[p].at = "demoted" /\ pc'[p].at = "idle")
                   => CurrentOf(db_current', pc[p].user_id)
                         = << [user_id |-> pc[p].user_id, latest |-> TRUE] >>
             /\ (pc[p].at # pc'[p].at)
                   => \A u \in Users \ { pc[p].user_id, pc'[p].user_id } :
                         CurrentOf(db_current', u) = CurrentOf(db_current, u)
       ]_vars

\* two users have a current record each, the followed user after a second
\* session, and no call is running
C16_Witness ==
    /\ \A p \in Requests : pc[p].at = "idle"
    /\ db_current = << [user_id |-> 2, latest |-> TRUE],
                       [user_id |-> FollowedUser, latest |-> TRUE] >>

\* C17: with calls of create_session interleaved commit by commit, no user ever
\* has more than one current record
C17_AtMostOneCurrent ==
    \A u \in Users : CountOf(db_current, u) <= 1

-----------------------------------------------------------------------------
(* The catalogue: products added in bulk, edited by update_product, copied  *)

\* update_product naming a product, one of its fields and the new value
UpdateProductCall(pid, field, value) ==
    Call("update_product",
         "product_id" :> pid @@ "field" :> PyStr(<< field >>) @@ "value" :> value)

\* a new price or name, an empty value, and a field update_product has no
\* branch for
UpdateProductCalls ==
    { UpdateProductCall(Pid(1), "price", PyStr(<< "x" >>)),
      UpdateProductCall(Pid(2), "product_name", PyStr(<< "x" >>)),
      UpdateProductCall(Pid(1), "price", PyStr(<<>>)),
      UpdateProductCall(Pid(1), "product_id", PyStr(<< "x" >>)) }

CatalogCalls ==
    { [name |-> "add_complete_product", arguments |-> Dict(pd)] :
            pd \in { Full(Pid(1), "w"), Full(Pid(2), "w"), MissingPrice } }
        \cup UpdateProductCalls

NextCatalog ==
    \/ \E m \in UserMessages, a \in AiResults(CatalogCalls, MaxOffered) : ProcessMessage(m, a)
    \/ \E l \in ProductUploadLists : UploadFile(l)
    \/ CreateNewSessionWithContext

SpecCatalog == Init /\ [][NextCatalog]_vars

\* the oracle answering with the one call
OneCall(call) == [ error |-> FALSE, message |-> "", function_calls |-> << call >> ]

\* C21: every stored Product holds a non-empty value in each of its six fields
C21_ProductsAreComplete ==
    \A i \in 1..Len(products) : \A f \in ProductKeys : Truthy(products[i][f])

\* the record of a new session holds the copies of two products, one of them
\* with the price update_product gave it
C21_Witness ==
    /\ turn.op = "create_new_session_with_context"
    /\ Len(products) = 2
    /\ \E i \in 1..2 : products[i] = [ProductRow(Full(Pid(1), "w")) EXCEPT
                                            !["price"] = PyStr(<< "x" >>)]
    /\ \E i \in 1..2 : products[i] = ProductRow(Full(Pid(2), "w"))

\* C27: a turn with one update_product call leaves the record as the
\* synchronisation at its start left it and the session status as it was; with a
\* product_id that has no row, an empty value or a field that is none of the
\* five editable ones it leaves the products as they were, and otherwise it
\* overwrites the named field of the row of that product_id and nothing else
C27_UpdateProductFrame ==
    [][ \A u \in UpdateProductCalls :
            (ProcessMessage("hello", OneCall(u)) /\ turn'.invoked)
                => LET pid == Get(u.arguments, "product_id")
                       field == NameOf(Get(u.arguments, "field"))
                       value == Get(u.arguments, "value")
                   IN  /\ onboarding_data' = sync_stage_with_data(onboarding_data)
                       /\ status' = status
                       /\ IF HasId(products, pid) /\ Truthy(value) /\ field # "product_id"
                          THEN /\ Len(products') = Len(products)
                               /\ \A i \in 1..Len(products) :
                                     products'[i] =
                                        IF i = PosOf(products, pid)
                                        THEN [products[i] EXCEPT ![field] = value]
                                        ELSE products[i]
                          ELSE products' = products ]_vars

\* update_product has given the second of two products a new name
C27_Witness ==
    /\ turn.op = "process_message"
    /\ turn.tools = << "update_product" >>
    /\ products = << ProductRow(Full(Pid(1), "w")),
                     [ProductRow(Full(Pid(2), "w")) EXCEPT
                            !["product_name"] = PyStr(<< "x" >>)] >>

-----------------------------------------------------------------------------
(* The draft after a flush                                                 *)

\* the product sub-machine is at its start
FreshDraft(od) ==
    /\ od.current_product_field = "product_id"
    /\ ~od.current_product_draft.isnull
    /\ get_product_draft(od) = EmptyDraft

\* C24: after save_product_from_draft has flushed the draft, onto a new row or
\* onto the row of the product_id, the draft is empty and the pointer is at
\* product_id; the stage is the PRODUCT stage the turn ran in
C24_FlushResetsDraft ==
    [][ /\ (turn'.op = "save_product_from_draft" /\ turn'.ret.product # 0)
             => ( /\ FreshDraft(onboarding_data')
                  /\ onboarding_data'.current_stage = onboarding_data.current_stage )
        /\ ( /\ ProcessTurn(turn')
             /\ turn'.tools = << "collect_product_field" >>
             /\ Len(turn'.flushes) = 1 )
             => ( /\ FreshDraft(onboarding_data')
                  /\ turn'.stage0 = "PRODUCT"
                  /\ onboarding_data'.current_stage = "PRODUCT" ) ]_vars

\* a turn has flushed the draft: the one row holds its values, the draft is
\* empty again and the pointer is back at product_id
C24_Witness ==
    /\ ProcessTurn(turn)
    /\ turn.tools = << "collect_product_field" >>
    /\ Len(turn.flushes) = 1
    /\ Get(turn.flushes[1], "product_id") = Pid(1)
    /\ products = << [ProductRow(Full(Pid(1), "v")) EXCEPT !["product_id"] = Pid(1)] >>
    /\ messages = << "assistant" >>
    /\ FreshDraft(onboarding_data)
    /\ onboarding_data.current_stage = "PRODUCT"

-----------------------------------------------------------------------------
(* advance_stage on its own                                                *)

\* the stage moved by advance_stage, by sync_stage_with_data and by turns, on
\* records that uploads fill and whose draft a collect_product_field writes to
NextStages ==
    \/ AdvanceStage
    \/ SyncStageWithData
    \/ \E m \in UserMessages, a \in AiResults({ CollectCall("product_id") }, MaxOffered) :
            ProcessMessage(m, a)
    \/ \E l \in ImportUploadLists : UploadFile(l)

SpecStages == Init /\ [][NextStages]_vars

\* C25: advance_stage moves current_stage to the next entry of STAGE_ORDER and
\* changes nothing when the stage is COMPLETED; on entering PRODUCT it sets the
\* pointer to product_id and the draft to {}, and otherwise leaves both; it
\* changes no company attribute
C25_AdvanceOneStage ==
    [][ turn'.op = "advance_stage"
            => LET i == StageIndex(onboarding_data.current_stage)
               IN  /\ (i < Len(STAGE_ORDER))
                        => onboarding_data'.current_stage = STAGE_ORDER[i + 1]
                   /\ (i = Len(STAGE_ORDER)) => onboarding_data' = onboarding_data
                   /\ IF onboarding_data.current_stage = "ESG_CERTIFICATION"
                      THEN FreshDraft(onboarding_data')
                      ELSE /\ onboarding_data'.current_product_field
                                = onboarding_data.current_product_field
                           /\ onboarding_data'.current_product_draft
                                = onboarding_data.current_product_draft
                   /\ \A k \in CompanyKeys \cup { "esg_certification_count" } :
                        onboarding_data'[k] = onboarding_data[k]
                   /\ products' = products /\ status' = status ]_vars

\* advance_stage has entered PRODUCT on a record with no attribute populated
\* and has reset the product sub-machine
C25_Witness ==
    /\ turn.op = "advance_stage"
    /\ onboarding_data.current_stage = "PRODUCT"
    /\ FreshDraft(onboarding_data)
    /\ \A k \in CompanyKeys : ~Populated(onboarding_data, k)

-----------------------------------------------------------------------------
(* The first message of a session                                          *)

MenuKinds == { "start_filling", "progress", "filled_data", "greeting" }

\* C28: a turn of process_message on an empty message history returns a menu
\* or greeting reply with completed False, does not invoke the oracle, and
\* changes no company attribute, no product and no entry of the draft
C28_FirstTurnIsMenu ==
    [][ (ProcessTurn(turn') /\ messages = <<>>)
            => /\ ~turn'.invoked
               /\ turn'.tools = <<>>
               /\ turn'.reply.kind \in MenuKinds
               /\ ~turn'.completed
               /\ \A k \in CompanyKeys \cup { "esg_certification_count" } :
                      onboarding_data'[k] = onboarding_data[k]
               /\ products' = products
               /\ get_product_draft(onboarding_data') = get_product_draft(onboarding_data)
               /\ status' = status ]_vars

\* the greeting was returned on a record that add_product had given a product
\* before any message
C28_Witness ==
    /\ ProcessTurn(turn)
    /\ ~turn.invoked
    /\ turn.reply.kind = "greeting"
    /\ messages = <<>>
    /\ Len(products) = 1

-----------------------------------------------------------------------------
(* Every tool, from an oracle that is not held to the offered tools        *)

ViewCall == Call("view_data", "data_type" :> PyStr(<< "company" >>))

\* one call of each of the seven tools
ToolCalls ==
    { Call("update_company_data", "industry" :> Industry),
      CollectCall("product_id"),
      [name |-> "add_complete_product", arguments |-> Dict(Full(Pid(1), "w"))],
      UpdateProductCall(Pid(1), "price", PyStr(<< "x" >>)),
      FieldCall("esg_certification", PyStr(EsgDash)),
      ViewCall,
      Call("mark_completed", "completed" :> PyInt(1)) }

\* an extraction that reports the first two attributes, or all six
ToolUploadLists ==
    CallLists({ Call("update_company_data",
                     "industry" :> Industry @@ "capital_amount" :> PyInt(0)),
                CompanyAll },
              MaxOffered)

NextTools ==
    \/ \E m \in UserMessages, a \in AiResults(ToolCalls, MaxOffered) : ProcessMessage(m, a)
    \/ SyncStageWithData
    \/ \E l \in ToolUploadLists : UploadFile(l)

SpecTools == Init /\ [][NextTools]_vars

\* C30: the tool calls of a turn never leave current_stage at an earlier
\* position of STAGE_ORDER than the turn started its dispatch from; a step that
\* moves the stage backward is sync_stage_with_data, called on its own or as
\* the first statement of process_message
C30_DispatchNeverMovesBack ==
    [][ /\ ProcessTurn(turn')
             => /\ turn'.stage0 = sync_stage_with_data(onboarding_data).current_stage
                /\ StageIndex(onboarding_data'.current_stage) >= StageIndex(turn'.stage0)
        /\ (StageIndex(onboarding_data'.current_stage)
                 < StageIndex(onboarding_data.current_stage))
             => \/ turn'.op = "sync_stage_with_data"
                \/ /\ ProcessTurn(turn')
                   /\ StageIndex(turn'.stage0) < StageIndex(onboarding_data.current_stage) ]_vars

\* mark_completed was dispatched on a record with no attribute populated: the
\* dispatch started at INDUSTRY and left the stage at COMPLETED
C30_Witness ==
    /\ ProcessTurn(turn)
    /\ turn.tools = << "mark_completed" >>
    /\ turn.completed
    /\ turn.stage0 = "INDUSTRY"
    /\ onboarding_data.current_stage = "COMPLETED"

-----------------------------------------------------------------------------
(* The message endpoint: the log, exceptions, view_data                    *)

\* update_company_field naming an integer attribute with a value that is no
\* number
MalformedCall == FieldCall("capital_amount", NotANumber)

EndpointCalls ==
    { Call("update_company_data", "industry" :> Industry), MalformedCall, ViewCall }

NextEndpoint ==
    \/ /\ Len(messages) + 2 <= MaxHistory
       /\ \E a \in AiResults(EndpointCalls, MaxCalls) : SendChatbotMessage("hello", a)
    \/ SendChatbotMessageNewSession
    \/ \E l \in ToolUploadLists : UploadFile(l)

SpecEndpoint == Init /\ [][NextEndpoint]_vars

\* a message the endpoint handled on an existing session
EndpointTurn(t) == t.op = "send_chatbot_message" /\ t.reply.kind # "welcome"

\* C22: a turn that fails part-way persists nothing: the record, the products,
\* the session status and the message log are as they were before the turn
C22_FailedTurnPersistsNothing ==
    [][ (EndpointTurn(turn') /\ turn'.raised)
            => /\ onboarding_data' = onboarding_data
               /\ products' = products
               /\ status' = status
               /\ messages' = messages ]_vars

\* C23: a turn whose one tool call is an update_company_field with a value that
\* cannot be converted raises nothing, re-prompts for the expected field and
\* leaves the record as the synchronisation at its start left it
C23_MalformedCallRecovered ==
    [][ (SendChatbotMessage("hello", OneCall(MalformedCall)) /\ EndpointTurn(turn'))
            => /\ ~turn'.raised
               /\ turn'.reply.name = ExpectedField(onboarding_data')
               /\ onboarding_data' = sync_stage_with_data(onboarding_data)
               /\ products' = products ]_vars

\* C26: a turn whose oracle answer starts with a view_data call returns the
\* snapshot with completed False and applies none of the calls listed after
\* it: the record is as the synchronisation at the start of the turn left it,
\* the products and the session status are as they were
C26_ViewDataShortCircuits ==
    [][ (EndpointTurn(turn') /\ Len(turn'.tools) >= 1 /\ turn'.tools[1] = "view_data")
            => /\ turn'.reply.kind = "view_data"
               /\ ~turn'.completed
               /\ ~turn'.raised
               /\ onboarding_data' = sync_stage_with_data(onboarding_data)
               /\ products' = products ]_vars

-----------------------------------------------------------------------------
(* Storage failures: chat turns in which the commit of                     *)
(* update_onboarding_data may raise                                        *)

NextStorage ==
    \/ \E m \in UserMessages, a \in AiResults(CompanyCalls, MaxOffered), ok \in BOOLEAN :
            ProcessMessageStorage(m, a, ok)
    \/ \E l \in ToolUploadLists : UploadFile(l)

SpecStorage == Init /\ [][NextStorage]_vars

\* turn t dispatched update_company_data calls only, at least one, while the
\* commit of update_onboarding_data was failing
FailedCommitTurn(t) ==
    /\ t.op = "process_message"
    /\ t.invoked
    /\ ~t.commit_ok
    /\ t.tools # <<>>
    /\ \A i \in 1..Len(t.tools) : t.tools[i] = "update_company_data"

\* C31: a turn of update_company_data calls in which the commit of
\* update_onboarding_data fails leaves the record as the stage sync of the
\* turn's first statement left it (no attribute written, the stage not
\* advanced), and the reply does not report a recorded value
C31_FailedCommitRollsBack ==
    [][ FailedCommitTurn(turn')
            => /\ onboarding_data' = sync_stage_with_data(onboarding_data)
               /\ products' = products
               /\ turn'.reply = get_next_field_question(onboarding_data', products')
      ]_vars

\* a turn at CAPITAL_AMOUNT whose update_company_data call met a failing
\* commit: the stage is still CAPITAL_AMOUNT and the amount is still unset
C31_Witness ==
    /\ turn.op = "process_message"
    /\ ~turn.commit_ok
    /\ turn.invoked
    /\ turn.tools = << "update_company_data" >>
    /\ turn.stage0 = "CAPITAL_AMOUNT"
    /\ onboarding_data.current_stage = "CAPITAL_AMOUNT"
    /\ onboarding_data.capital_amount = None
    /\ turn.reply = Reply("question", "capital_amount", 1)

-----------------------------------------------------------------------------
(* The tool menu of a turn                                                 *)

\* the list get_state_aware_tools returns at the COMPLETED stage
CompletedMenu ==
    << "update_company_field", "update_product", "add_complete_product",
       "view_data", "mark_completed" >>

\* C32: on a turn of a record whose stored stage is COMPLETED the oracle is
\* offered the COMPLETED-stage menu, which holds no collect_product_field
C32_CompletedMenuOffered ==
    [][ (ProcessTurn(turn') /\ turn'.invoked /\ onboarding_data.current_stage = "COMPLETED")
            => /\ turn'.menu = CompletedMenu
               /\ "collect_product_field" \notin Range(turn'.menu)
      ]_vars

-----------------------------------------------------------------------------
(* The test-environment handler: chat turns and uploads                    *)

\* the calls of OfferedCalls and mark_completed, where the test handler offers
\* their tool
TestOfferedCalls ==
    { c \in OfferedCalls \cup { Call("mark_completed", "completed" :> PyInt(1)) } :
        c.name \in Range(Test_get_state_aware_tools(sync_stage_with_data(onboarding_data))) }

NextTestHandler ==
    \/ \E m \in UserMessages, a \in AiResults(TestOfferedCalls, MaxOffered) :
            TestProcessMessage(m, a)
    \/ \E l \in ProductUploadLists : UploadFile(l)

SpecTestHandler == Init /\ [][NextTestHandler]_vars

\* C33: a turn whose collect_product_field call flushed a product, the oracle
\* supplying no reply text, answers with the product-added confirmation that
\* asks for another product id, in the production handler and in the
\* test-environment handler
C33_FlushReplyIsProductAdded ==
    [][ (/\ turn'.op \in { "process_message", "test_process_message" }
         /\ turn'.tools = << "collect_product_field" >>
         /\ turn'.flushes # <<>>)
            => turn'.reply = Reply("product_added", "product_id", 0)
      ]_vars

-----------------------------------------------------------------------------
(* The draft and the pointer                                               *)

\* what the oracle answers on the record as process_message finds it: a value
\* for the field of the pointer, or a value for the last field ahead of its turn
DraftCalls ==
    LET od == sync_stage_with_data(onboarding_data)
        product_field == IF od.current_product_field = NoField
                         THEN "product_id" ELSE od.current_product_field
    IN  { CollectCall(product_field), CollectCall("technical_advantages") }

NextDraft ==
    \/ \E m \in UserMessages, a \in AiResults(DraftCalls, MaxOffered) : ProcessMessage(m, a)
    \/ \E l \in CallLists({ CompanyAll }, MaxOffered) : UploadFile(l)

SpecDraft == Init /\ [][NextDraft]_vars

\* the keys the draft of od holds
KeysOf(od) == { k \in DraftKeys : Has(get_product_draft(od), k) }

\* the product fields that precede field f in PRODUCT_FIELD_ORDER
Preceding(f) ==
    { PRODUCT_FIELD_ORDER[i] : i \in 1..(IndexOf(PRODUCT_FIELD_ORDER, f) - 1) }

\* the draft holds the fields before the pointer, each non-empty, and no other
InOrder(od) ==
    /\ od.current_product_field # NoField
    /\ KeysOf(od) = Preceding(od.current_product_field)
    /\ \A k \in KeysOf(od) : Truthy(Get(get_product_draft(od), k))

\* C34: the draft holds exactly the fields before the pointer when the record
\* enters PRODUCT, and a turn that collects a non-empty value for the field
\* of the pointer keeps it so, the collect at technical_advantages flushing
\* the draft; a collect at technical_advantages into a draft that lacks an
\* earlier key flushes nothing and leaves the pointer at technical_advantages
C34_DraftFollowsPointer ==
    [][ /\ (ProcessTurn(turn') /\ turn'.stage0 = "PRODUCT"
                /\ onboarding_data.current_product_field = NoField)
            => (turn'.tools = <<>> => /\ InOrder(onboarding_data')
                                      /\ onboarding_data'.current_product_field = "product_id")
        /\ \A f \in Range(PRODUCT_FIELD_ORDER) :
            LET synced == sync_stage_with_data(onboarding_data)
            IN  ( /\ ProcessMessage("hello", OneCollectCall(f))
                  /\ turn'.invoked
                  /\ turn'.stage0 = "PRODUCT"
                  /\ f = synced.current_product_field )
                    => /\ InOrder(synced)
                            => /\ InOrder(onboarding_data')
                               /\ (f = "technical_advantages")
                                    => /\ Len(turn'.flushes) = 1
                                       /\ onboarding_data'.current_product_field = "product_id"
                               /\ (f # "technical_advantages")
                                    => /\ turn'.flushes = <<>>
                                       /\ KeysOf(onboarding_data') = KeysOf(synced) \cup { f }
                       /\ ( /\ f = "technical_advantages"
                            /\ ~(Preceding(f) \subseteq KeysOf(synced)) )
                            => /\ turn'.flushes = <<>>
                               /\ products' = products
                               /\ onboarding_data'.current_product_field = "technical_advantages"
      ]_vars

\* the sixth in-order collect has flushed a product: the draft is empty again
\* and the pointer is back at product_id
C34_Witness ==
    /\ ProcessTurn(turn)
    /\ turn.tools = << "collect_product_field" >>
    /\ Len(turn.flushes) = 1
    /\ KeysOf(onboarding_data) = {}
    /\ onboarding_data.current_product_field = "product_id"
    /\ Len(products) = 1

\* a collect at technical_advantages met a draft without product_name: the
\* value is in the draft, nothing was flushed and the pointer has not moved
C34_StuckAtLastField ==
    /\ ProcessTurn(turn)
    /\ turn.tools = << "collect_product_field" >>
    /\ turn.flushes = <<>>
    /\ onboarding_data.current_product_field = "technical_advantages"
    /\ "technical_advantages" \in KeysOf(onboarding_data)
    /\ "product_name" \notin KeysOf(onboarding_data)

-----------------------------------------------------------------------------
(* A session whose oracle answers every turn as expected                   *)

\* the expected tool with a valid value for the expected field of the record
\* as process_message finds it
ExpectedCalls ==
    LET od == sync_stage_with_data(onboarding_data)
        stage == get_current_stage(od)
        field_key == STAGE_TO_FIELD[stage]
        product_field == IF od.current_product_field = NoField
                         THEN "product_id" ELSE od.current_product_field
        Collect(value) ==
            Call("collect_product_field",
                 "field" :> PyStr(<< product_field >>) @@ "value" :> value)
    IN  IF stage = "PRODUCT"
        THEN CASE product_field = "product_id" -> { Collect(Pid(i)) : i \in 1..MaxPid }
               [] product_field = "product_name" ->
                    { Collect(PyStr(<< c >>)) : c \in { "v", "w" } }
               [] OTHER -> { Collect(PyStr(<< "v" >>)) }
        ELSE { Call("update_company_data", field_key :> v) :
                v \in CASE field_key = "industry" -> { Industry }
                        [] field_key = "esg_certification" -> { PyStr(EsgTwo), PyStr(EsgWu) }
                        [] field_key \in { "capital_amount", "invention_patent_count" } ->
                                { PyInt(0), PyInt(1) }
                        [] OTHER -> { PyInt(0) } }

ExpectedResults ==
    { [error |-> FALSE, message |-> "", function_calls |-> << c >>] : c \in ExpectedCalls }

NextLive ==
    /\ Len(messages) + 2 <= MaxSession
    /\ \E a \in ExpectedResults : SendChatbotMessage("hello", a)

\* the user goes on sending messages as long as the session lasts
SpecLive == Init /\ [][NextLive]_vars /\ WF_vars(NextLive)

\* the record is at PRODUCT with an empty draft and the pointer at product_id
AtFreshProduct ==
    /\ onboarding_data.current_stage = "PRODUCT"
    /\ onboarding_data.current_product_field = "product_id"
    /\ KeysOf(onboarding_data) = {}

\* the last turn stored a product and the pointer is back at product_id
ProductStored ==
    /\ turn.flushes # <<>>
    /\ products # <<>>
    /\ onboarding_data.current_stage = "PRODUCT"
    /\ onboarding_data.current_product_field = "product_id"

\* C35: with the oracle answering every turn with the expected tool and a valid
\* value, a session that starts from an empty record reaches PRODUCT; from
\* PRODUCT with an empty draft and no product stored by the last turn, a
\* product is eventually stored and the pointer is back at product_id (as
\* long as the bounded log has room for the six turns); and no turn leaves
\* the expected field where it found it
C35_ExpectedOracleProgress ==
    /\ <>(onboarding_data.current_stage = "PRODUCT")
    /\ (AtFreshProduct /\ ~ProductStored /\ Len(messages) + 12 <= MaxSession)
            ~> ProductStored
    /\ [][ turn'.op = "send_chatbot_message"
                => ExpectedField(onboarding_data')
                        # ExpectedField(sync_stage_with_data(onboarding_data)) ]_vars

\* twelve turns from the empty record: six attributes, then six product fields
C35_Witness ==
    /\ turn.op = "send_chatbot_message"
    /\ ProductStored
    /\ Len(messages) = 24
    /\ get_progress(onboarding_data) = 6

-----------------------------------------------------------------------------
(* The history process_message finds when the endpoint calls it            *)

\* C36: the send-message endpoint never runs process_message on an empty
\* history: for a new session it logs the two welcome messages and returns
\* without processing; on an existing session it logs the user message first,
\* so the oracle is asked and the reply is never one of the first-turn menu
C36_EndpointNeverTakesMenu ==
    [][ turn'.op = "send_chatbot_message"
            => \/ /\ turn'.reply.kind = "welcome"
                  /\ ~turn'.invoked
                  /\ messages' = << "assistant", "assistant" >>
                  /\ onboarding_data' = NewOnboarding
                  /\ products' = <<>>
               \/ /\ turn'.invoked
                  /\ turn'.reply.kind \notin MenuKinds
                  /\ Len(messages') > Len(messages)
                  /\ messages'[Len(messages) + 1] = "user"
      ]_vars

\* the first message sent to a session whose log was empty: the oracle was
\* asked, the log holds the user message and the reply
C36_Witness ==
    /\ turn.op = "send_chatbot_message"
    /\ turn.invoked
    /\ messages = << "user", "assistant" >>

-----------------------------------------------------------------------------
(* Requests of several users, each naming a session id                     *)

\* what the oracle answers: an error, no call, or one call
IsolationResults ==
    AiResults({ Call("update_company_data", "industry" :> Industry),
                Call("mark_completed", "completed" :> PyInt(1)) }, 1)

\* what the extraction of an uploaded file reports: nothing, or all six attributes
IsolationUploads == CallLists({ CompanyAll }, 1)

NextIsolation ==
    \/ \E u \in Users, sid \in SessionIds, a \in IsolationResults :
            SendChatbotMessageAs(u, sid, "hello", a)
    \/ \E u \in Users, sid \in SessionIds, l \in IsolationUploads : UploadFileAs(u, sid, l)

SpecIsolation == Init /\ [][NextIsolation]_vars

\* C37: a request of a user other than the owner of the followed session,
\* whatever session id it names, gets a session of its own: it leaves the
\* record, the products, the status and the message log of the followed
\* session and the current record of its owner as they were, and the
\* requesting user has one current record afterwards
C37_ForeignRequestIsolated ==
    [][ \A u \in Users \ { FollowedUser }, sid \in SessionIds :
            ( \/ \E a \in IsolationResults : SendChatbotMessageAs(u, sid, "hello", a)
              \/ \E l \in IsolationUploads : UploadFileAs(u, sid, l) )
                => /\ onboarding_data' = onboarding_data
                   /\ products' = products
                   /\ status' = status
                   /\ messages' = messages
                   /\ CurrentOf(db_current', FollowedUser)
                        = CurrentOf(db_current, FollowedUser)
                   /\ Len(CurrentOf(db_current', u)) = 1
      ]_vars

\* another user's message has been answered with the welcome of a new session
\* while the followed session holds data and a log
C37_Witness ==
    /\ turn.op = "send_chatbot_message"
    /\ turn.reply.kind = "welcome"
    /\ Truthy(onboarding_data.industry)
    /\ messages # <<>>
    /\ Len(CurrentOf(db_current, 2)) = 1
    /\ Len(CurrentOf(db_current, FollowedUser)) = 1

-----------------------------------------------------------------------------
(* A bulk submission while a product is collected field by field           *)

\* what the oracle answers at PRODUCT: the value "v" for the field of the
\* pointer, or a bulk submission of product p1, complete or without its price
BulkCalls ==
    LET od == sync_stage_with_data(onboarding_data)
        product_field == IF od.current_product_field = NoField
                         THEN "product_id" ELSE od.current_product_field
    IN  { CollectCall(product_field),
          [name |-> "add_complete_product", arguments |-> Dict(Full(Pid(1), "w"))],
          [name |-> "add_complete_product", arguments |-> Dict(MissingPrice)] }

NextBulk ==
    \/ \E m \in UserMessages, a \in AiResults(BulkCalls, MaxOffered) : ProcessMessage(m, a)
    \/ \E l \in CallLists({ CompanyAll }, MaxOffered) : UploadFile(l)

SpecBulk == Init /\ [][NextBulk]_vars

\* C38: a turn whose one call is an add_complete_product that stores the
\* product leaves the draft empty and the pointer at product_id, whatever the
\* draft held, the product_id of another product included; one that is
\* rejected for a missing field leaves the draft, the pointer and the products
\* as the turn found them
C38_BulkAddResetsDraft ==
    [][ \A pd \in { Full(Pid(1), "w"), MissingPrice } :
            LET synced == sync_stage_with_data(onboarding_data)
            IN  (ProcessMessage("hello", OneBulkCall(pd)) /\ turn'.invoked)
                    => /\ (Lacks(pd) = {})
                            => /\ FreshDraft(onboarding_data')
                               /\ HasId(products', pd["product_id"])
                               /\ turn'.reply.kind = "product_added"
                       /\ (Lacks(pd) # {})
                            => /\ onboarding_data' = synced
                               /\ products' = products
      ]_vars

\* a bulk submission of p1 was stored: p1 is the only product, the draft is
\* empty and the pointer is at product_id
C38_Witness ==
    /\ ProcessTurn(turn)
    /\ turn.tools = << "add_complete_product" >>
    /\ turn.reply.kind = "product_added"
    /\ FreshDraft(onboarding_data)
    /\ Len(products) = 1
    /\ products[1].product_id = Pid(1)

-----------------------------------------------------------------------------
(* C39: populated company attributes stay populated                        *)

\* update_company_data naming attributes with the values the handler does not
\* store (an empty string, None) next to a certification count of one
EmptyingCall ==
    Call("update_company_data",
         "industry" :> PyStr(<<>>) @@ "capital_amount" :> None
            @@ "esg_certification" :> PyStr(<<>>) @@ "certification_count" :> PyInt(1))

PopulatedCalls == CompanyCalls \cup { EmptyingCall }

NextPopulated ==
    \/ \E m \in UserMessages, a \in AiResults(PopulatedCalls, MaxOffered) :
            ProcessMessage(m, a)
    \/ SyncStageWithData
    \/ \E l \in ToolUploadLists : UploadFile(l)

SpecPopulated == Init /\ [][NextPopulated]_vars

SyncedPosition(od) == StageIndex(sync_stage_with_data(od).current_stage)

\* C39: within a session no operation of the handler empties a populated
\* company attribute: each of the six attributes, once populated, stays
\* populated, so the fields_completed of get_progress never decreases and the
\* stage sync_stage_with_data computes never lies before the one it computed
\* from the earlier record (a stored COMPLETED is rewritten to that stage)
C39_PopulatedStaysPopulated ==
    [][ /\ \A k \in CompanyKeys :
                Populated(onboarding_data, k) => Populated(onboarding_data', k)
        /\ get_progress(onboarding_data') >= get_progress(onboarding_data)
        /\ SyncedPosition(onboarding_data') >= SyncedPosition(onboarding_data) ]_vars

\* a turn that began at the certification count, the four attributes before it
\* populated, dispatched the call that names an empty industry and no capital:
\* the count it carries is stored, the industry and the capital are kept
C39_Witness ==
    /\ turn.op = "process_message"
    /\ turn.stage0 = "CERTIFICATION_COUNT"
    /\ turn.tools = << "update_company_data" >>
    /\ onboarding_data.certification_count = PyInt(1)
    /\ Truthy(onboarding_data.industry)
    /\ onboarding_data.capital_amount # None

-----------------------------------------------------------------------------
(* C40: the message endpoint reopens a COMPLETED session                   *)

\* mark_completed with completed true and with completed false, next to a call
\* that records data and one that makes process_message raise
ReopenCalls ==
    { Call("update_company_data", "industry" :> Industry),
      MalformedCall,
      Call("mark_completed", "completed" :> PyInt(1)),
      Call("mark_completed", "completed" :> PyInt(0)) }

ReopenResults == AiResults(ReopenCalls, MaxCalls)

NextReopen ==
    \/ /\ Len(messages) + 2 <= MaxHistory
       /\ \E a \in ReopenResults : SendChatbotMessage("hello", a)
    \/ SendChatbotMessageNewSession
    \/ \E l \in ToolUploadLists : UploadFile(l)

SpecReopen == Init /\ [][NextReopen]_vars

\* the oracle's calls hold a mark_completed whose completed is true
MarksCompleted(ai_result) ==
    /\ ~ai_result.error
    /\ \E i \in 1..Len(ai_result.function_calls) :
            /\ ai_result.function_calls[i].name = "mark_completed"
            /\ Truthy(Get(ai_result.function_calls[i].arguments, "completed"))

\* C40: a message the endpoint takes for a COMPLETED session leaves the status
\* ACTIVE, the session reopened before the turn, unless the turn itself
\* dispatched mark_completed with completed true: only then is it COMPLETED
C40_CompletedSessionReopened ==
    [][ \A a \in ReopenResults :
            (status = "COMPLETED" /\ SendChatbotMessage("hello", a))
                => /\ turn'.status0 = "COMPLETED"
                   /\ status' \in { "ACTIVE", "COMPLETED" }
                   /\ status' = "COMPLETED" => MarksCompleted(a) ]_vars

\* a turn of the endpoint found the session COMPLETED, dispatched no
\* mark_completed, and left it ACTIVE
C40_Witness ==
    /\ turn.op = "send_chatbot_message"
    /\ turn.status0 = "COMPLETED"
    /\ turn.invoked
    /\ turn.tools = << "update_company_data" >>
    /\ status = "ACTIVE"

====
